---- MODULE Spec2Model ----
(***************************************************************************)
(* State-machine model of the RocksDB NIF wrapper of TripleStore           *)
(* (native/rocksdb_nif/src/lib.rs): the handle (DbRef) with its close      *)
(* gate, the reference-counted SharedDb, point and batch operations,       *)
(* prefix iterators, snapshots and snapshot iterators.                     *)
(***************************************************************************)
EXTENDS Integers, Sequences, FiniteSets, TLC

(***************************************************************************)
(* Bounds of the model                                                     *)
(***************************************************************************)
\* number of IteratorRef resources a run may create
MaxIters == 1
\* number of SnapshotRef resources a run may create
MaxSnaps == 1
\* number of SnapshotIteratorRef resources a run may create
MaxSnapIters == 1

\* number of entries of the operation list of a batch call
MaxBatchLen == 2

\* number of scheduler threads running NIF calls at the same time
MaxThreads == 2
\* number of NIF calls the threads of a run start
MaxCalls == 3

IterIds == 1..MaxIters
SnapIds == 1..MaxSnaps
SnapIterIds == 1..MaxSnapIters
Threads == 1..MaxThreads
NoThread == 0

\* the dependent resources: each one has a Mutex of its own
Resources ==
  ({"iterator"} \X IterIds) \cup ({"snapshot"} \X SnapIds)
    \cup ({"snapshot_iterator"} \X SnapIterIds)

\* an 8-byte identifier, as the index families put at the start of a key
Id8(n) == <<0, 0, 0, 0, 0, 0, 0, n>>

\* keys and values are opaque byte strings; keys are sequences of bytes:
\* keys shorter than an identifier, and keys that start with one
ShortKeys == {<<1, 1>>, <<1, 2>>, <<2, 1>>}
LongKeys == {Id8(1) \o <<1>>, Id8(1) \o <<2>>, Id8(2) \o <<1>>}
Keys == ShortKeys \cup LongKeys
Vals == {<<7>>, <<8>>}
\* prefixes and seek targets handed to the iterator operations
Prefixes == {<<1>>, <<2>>}
\* option lists handed to set_options (0 stands for the options of open)
OptionLists == {1}
\* column family atoms handed to the operations; ":bogus" is not a family
CfAtoms == {":spo", ":id2str", ":bogus"}

\* the absent value of the engine (Ok(None) of get_cf)
NoVal == <<>>
\* targets handed to iterator_seek
Targets == Prefixes \cup Keys

(***************************************************************************)
(* Program constants                                                       *)
(***************************************************************************)
CF_NAMES == <<"id2str", "str2id", "spo", "pos", "osp", "derived", "numeric_range">>

PREFIX_CFS == {"spo", "pos", "osp", "numeric_range"}

PREFIX_LENGTH == 8

DbPath == "/tmp/db"

CfNameSet == {CF_NAMES[n] : n \in 1..Len(CF_NAMES)}

\* a dispatch that sends an atom it does not know to the family derived
cf_atom_to_name_default(cf_atom) ==
  IF cf_atom = ":id2str" THEN "id2str"
  ELSE IF cf_atom = ":str2id" THEN "str2id"
  ELSE IF cf_atom = ":spo" THEN "spo"
  ELSE IF cf_atom = ":pos" THEN "pos"
  ELSE IF cf_atom = ":osp" THEN "osp"
  ELSE IF cf_atom = ":numeric_range" THEN "numeric_range"
  ELSE "derived"

cf_atom_to_name(cf_atom) ==
  IF cf_atom = ":id2str" THEN "id2str"
  ELSE IF cf_atom = ":str2id" THEN "str2id"
  ELSE IF cf_atom = ":spo" THEN "spo"
  ELSE IF cf_atom = ":pos" THEN "pos"
  ELSE IF cf_atom = ":osp" THEN "osp"
  ELSE IF cf_atom = ":derived" THEN "derived"
  ELSE IF cf_atom = ":numeric_range" THEN "numeric_range"
  ELSE "none"

(***************************************************************************)
(* Terms returned to the caller                                            *)
(***************************************************************************)
Ok == <<"ok">>
OkVal(v) == <<"ok", v>>
OkKV(k, v) == <<"ok", k, v>>
NotFound == <<"not_found">>
IteratorEnd == <<"iterator_end">>
Err(reason) == <<"error", reason>>
AlreadyClosed == Err(<<"already_closed">>)
IteratorClosed == Err(<<"iterator_closed">>)
SnapshotReleased == Err(<<"snapshot_released">>)
InvalidCf(cf_atom) == Err(<<"invalid_cf", cf_atom>>)
\* a read through a dangling reference: the build may crash or return junk
UBOutcomes == {<<"segfault">>, <<"garbage">>}

\* terms received from the caller: atoms, binaries and tuples
Atom(a) == <<"atom", a>>
Bin(b) == <<"bin", b>>
Tuple(elems) == <<"tuple", elems>>
is_atom(t) == t[1] = "atom"
is_binary(t) == t[1] = "bin"
is_tuple(t) == t[1] = "tuple"
\* a decode failure is raised as an exception carrying the message
Raise(msg) == <<"raise", msg>>
InvalidOperation == Err(<<"invalid_operation">>)
\* an invalid_operation error that leaves the tag out
InvalidOperationBare(op_atom) == Err(<<"invalid_operation">>)
InvalidOperationTag(op_atom) == Err(<<"invalid_operation", op_atom>>)
BatchFailed == Err(<<"batch_failed">>)

\* entries handed to the batch calls: well-formed ones of each shape, and
\* entries with an unknown family, an unknown tag, a wrong arity, no tuple
Entries ==
  { Tuple(<<Atom(":spo"), Bin(<<1, 1>>), Bin(<<8>>)>>),
    Tuple(<<Atom(":put"), Atom(":id2str"), Bin(<<1, 2>>), Bin(<<7>>)>>),
    Tuple(<<Atom(":delete"), Atom(":spo"), Bin(<<2, 1>>)>>),
    Tuple(<<Atom(":spo"), Bin(<<2, 1>>)>>),
    Tuple(<<Atom(":bogus"), Bin(<<1, 1>>), Bin(<<8>>)>>),
    Tuple(<<Atom(":put"), Atom(":bogus"), Bin(<<1, 2>>), Bin(<<7>>)>>),
    Tuple(<<Atom(":bogus"), Bin(<<2, 1>>)>>),
    Tuple(<<Atom(":merge"), Atom(":spo"), Bin(<<1, 2>>), Bin(<<7>>)>>),
    Tuple(<<Atom(":spo")>>),
    Tuple(<<>>),
    Bin(<<1, 1>>) }

\* the operation lists: every list of at most MaxBatchLen entries
OpLists == UNION {[1..n -> Entries] : n \in 0..MaxBatchLen}

(***************************************************************************)
(* Byte strings in the engine's (bytewise) key order                       *)
(***************************************************************************)
RECURSIVE BytesLess(_, _)
BytesLess(a, b) ==
  IF b = <<>> THEN FALSE
  ELSE IF a = <<>> THEN TRUE
  ELSE IF Head(a) < Head(b) THEN TRUE
  ELSE IF Head(a) > Head(b) THEN FALSE
  ELSE BytesLess(Tail(a), Tail(b))

BytesLeq(a, b) == a = b \/ BytesLess(a, b)

starts_with(key, prefix) ==
  /\ Len(prefix) <= Len(key)
  /\ SubSeq(key, 1, Len(prefix)) = prefix

MinKey(S) == CHOOSE k \in S : \A j \in S : BytesLeq(k, j)

RECURSIVE SortedKeys(_)
SortedKeys(S) ==
  IF S = {} THEN <<>>
  ELSE LET m == MinKey(S) IN <<m>> \o SortedKeys(S \ {m})

(***************************************************************************)
(* The engine (rocksdb::DB) as the wrapper uses it                         *)
(***************************************************************************)
EmptyCf == [k \in Keys |-> NoVal]
EmptyStore == [cf \in CfNameSet |-> EmptyCf]

\* contents of a database that existed before open
SeedStore ==
  [EmptyStore EXCEPT !["spo"] =
     [k \in Keys |-> IF k \notin ShortKeys THEN NoVal
                     ELSE IF k = <<1, 2>> THEN <<8>> ELSE <<7>>]]

InitStores == {EmptyStore, SeedStore}

db_get_cf(st, cf_name, key) == st[cf_name][key]

\* the write-ahead log of the engine as a crash sees it: synced is the
\* contents as of the last fsync of the log, unsynced the contents after each
\* write since; os is how the operating system writes the log file back,
\* "write_through" (at once) or "write_back" (when it is told to sync)
Log(st, os) == [os |-> os, synced |-> st, unsynced |-> {}]

\* WriteOptions::default() and set_sync
DefaultWriteOptions == [sync |-> FALSE]

\* write options that leave the fsync to the operating system whatever the flag
write_options_default(sync) == DefaultWriteOptions

write_options(sync) == [DefaultWriteOptions EXCEPT !.sync = sync]

\* the log after a write that left the contents st: one record for the whole
\* write, fsynced with all the records before it when the write asks for it
wal_write(w, st, write_opts) ==
  IF w.os = "write_through" \/ write_opts.sync
  THEN [w EXCEPT !.synced = st, !.unsynced = {}]
  ELSE [w EXCEPT !.unsynced = @ \cup {st}]

\* a flush that leaves the log in the cache of the operating system
wal_flush_cached(w, st, sync) == w

\* DB::flush_wal(sync): with sync, every record written so far is fsynced
wal_flush(w, st, sync) ==
  IF w.os = "write_through" \/ sync
  THEN [w EXCEPT !.synced = st, !.unsynced = {}]
  ELSE w

\* the contents recovery from the log can return after a crash: those of the
\* last fsync, or those after any of the writes since (a record is replayed
\* whole or not at all)
recovered(w) == {w.synced} \cup w.unsynced

db_put_cf(st, cf_name, key, value) ==
  [st EXCEPT ![cf_name][key] = value]

db_delete_cf(st, cf_name, key) ==
  [st EXCEPT ![cf_name][key] = NoVal]

\* a WriteBatch is a sequence of engine operations <<"put", cf, key, value>>
\* or <<"delete", cf, key, <<>>>>; DB::write_opt applies them in order, as
\* one atomic unit
batch_op(st, o) ==
  IF o[1] = "put" THEN db_put_cf(st, o[2], o[3], o[4]) ELSE db_delete_cf(st, o[2], o[3])

RECURSIVE db_write(_, _)
db_write(st, batch) ==
  IF batch = <<>> THEN st ELSE db_write(batch_op(st, Head(batch)), Tail(batch))

\* ReadOptions as the wrapper sets them
DefaultReadOpts == [prefix_same_as_start |-> FALSE, total_order_seek |-> FALSE]

\* the fixed-width prefix extractor of the index families
InDomain(key) == Len(key) >= PREFIX_LENGTH

Extract(key) == SubSeq(key, 1, PREFIX_LENGTH)

\* keys of a family's view at or after the seek position
KeysFrom(view, from) == {k \in Keys : view[k] # NoVal /\ BytesLeq(from, k)}

\* DB::iterator_cf_opt(cf, read_opts, IteratorMode::From(from, Forward)):
\* the possible sequences of keys the new cursor will deliver.  A family
\* without prefix extractor, a total-order seek, or a seek key the extractor
\* does not cover scans in total order; prefix_same_as_start stops at the
\* end of the seek key's prefix; a prefix seek without it delivers the keys
\* of the seek key's prefix and any of the keys outside it.
db_iterator_cf_opt(view, cf_name, read_opts, from) ==
  LET all == KeysFrom(view, from)
      same == {k \in all : InDomain(k) /\ Extract(k) = Extract(from)}
  IN IF cf_name \notin PREFIX_CFS \/ read_opts.total_order_seek \/ ~InDomain(from)
     THEN {SortedKeys(all)}
     ELSE IF read_opts.prefix_same_as_start
     THEN {SortedKeys(same)}
     ELSE {SortedKeys(same \cup X) : X \in SUBSET (all \ same)}

\* a cursor (DBIteratorWithThreadMode): the view pinned at creation and the
\* keys still to be delivered
Cursor(view, rest, read_opts) == [view |-> view, rest |-> rest, read_opts |-> read_opts]

NoCursor == Cursor(EmptyCf, <<>>, DefaultReadOpts)

VARIABLES
  inner,        \* DbRef.inner: "Some" (holds an Arc<SharedDb>) or "None"
  db_ref_live,  \* the DbRef resource has not been collected
  strong,       \* strong count of the Arc<SharedDb>
  db_alive,     \* the SharedDb (the engine) has not been dropped
  store,        \* contents of the engine, per column family
  iters,        \* IteratorRef resources
  snaps,        \* SnapshotRef resources
  snapiters,    \* SnapshotIteratorRef resources
  cf_opts,      \* the option list last applied to each column family
  last,         \* the last call and the term it returned
  pc,           \* where each scheduler thread is in the NIF it runs
  call,         \* the NIF call each thread runs, with its arguments
  readers,      \* DbRef.inner (RwLock): the threads holding the read lock
  writer,       \* DbRef.inner (RwLock): the thread holding the write lock
  mutex,        \* the Mutex of each dependent resource: the thread holding it
  calls,        \* the number of NIF calls the threads have started
  wal           \* the engine's log on disk: what a crash can leave behind

\* the threads and the locks
conc == <<pc, call, readers, writer, mutex, calls>>

vars == <<inner, db_ref_live, strong, db_alive, store, iters, snaps, snapiters, cf_opts, last,
          conc, wal>>

\* the record of a call: the operation, its arguments and the returned term
Call(op, cf, key, value, id, result) ==
  [op |-> op, cf |-> cf, key |-> key, value |-> value, id |-> id,
   ops |-> <<>>, sync |-> FALSE, result |-> result]

\* the record of a batch call: its list of operations and the returned term
BatchCall(op, operations, result) ==
  [op |-> op, cf |-> "", key |-> <<>>, value |-> <<>>, id |-> 0,
   ops |-> operations, sync |-> FALSE, result |-> result]

\* the record of a call that takes the sync flag
SyncCall(c, sync) == [c EXCEPT !.sync = sync]

NoCall == Call("open", "", <<>>, <<>>, 0, Ok)

\* the call a thread runs: batch is the WriteBatch it has built
TCall(op, cf, key, value, id, operations) ==
  [op |-> op, cf |-> cf, key |-> key, value |-> value, id |-> id,
   ops |-> operations, batch |-> <<>>]

NoTCall == TCall("none", "", <<>>, <<>>, 0, <<>>)

(***************************************************************************)
(* Arc<SharedDb>: clone and drop of a strong reference                     *)
(***************************************************************************)
ArcClone(n) == n + 1

ArcDrop(n) == n - 1

\* the SharedDb is dropped when the last strong reference goes away
AliveAfter(alive, n) == alive /\ n > 0

(***************************************************************************)
(* Handle operations (sequential view: one action per NIF call)            *)
(***************************************************************************)
\* state left alone by every operation that only reads through the handle
HandleFrame == UNCHANGED <<inner, db_ref_live, strong, db_alive, cf_opts, conc, wal>>

\* state left alone by every operation that writes through the handle
WriteFrame == UNCHANGED <<inner, db_ref_live, strong, db_alive, cf_opts, conc>>

ResFrame == UNCHANGED <<iters, snaps, snapiters>>

\* a close that leaves the Option as it is
close_inner_kept(g) == g

close_inner(g) == "None"

\* a list that leaves the family derived out
cf_atoms_short ==
  <<":id2str", ":str2id", ":spo", ":pos", ":osp", ":numeric_range">>

\* the vector list_column_families encodes
cf_atoms ==
  <<":id2str", ":str2id", ":spo", ":pos", ":osp", ":derived", ":numeric_range">>

\* list_column_families takes no handle and returns the bare list
list_column_families ==
  /\ last' = Call("list_column_families", "", <<>>, <<>>, 0, cf_atoms)
  /\ UNCHANGED store
  /\ HandleFrame
  /\ ResFrame

close ==
  /\ db_ref_live
  /\ IF inner = "None"
     THEN /\ last' = Call("close", "", <<>>, <<>>, 0, AlreadyClosed)
          /\ UNCHANGED <<inner, strong, db_alive>>
     ELSE /\ inner' = close_inner(inner)
          /\ strong' = ArcDrop(strong)
          /\ db_alive' = AliveAfter(db_alive, strong')
          /\ last' = Call("close", "", <<>>, <<>>, 0, Ok)
  /\ UNCHANGED <<db_ref_live, store, cf_opts, conc, wal>>
  /\ ResFrame

is_open ==
  /\ db_ref_live
  /\ last' = Call("is_open", "", <<>>, <<>>, 0, <<inner = "Some">>)
  /\ UNCHANGED store
  /\ HandleFrame
  /\ ResFrame

get_path ==
  /\ db_ref_live
  /\ last' = Call("get_path", "", <<>>, <<>>, 0,
                  IF inner = "Some" THEN OkVal(DbPath) ELSE AlreadyClosed)
  /\ UNCHANGED store
  /\ HandleFrame
  /\ ResFrame

\* the DbRef resource is collected: its field `inner` is dropped with it
drop_db_ref ==
  /\ db_ref_live
  /\ db_ref_live' = FALSE
  /\ UNCHANGED inner
  /\ strong' = IF inner = "Some" THEN ArcDrop(strong) ELSE strong
  /\ db_alive' = AliveAfter(db_alive, strong')
  /\ UNCHANGED <<store, cf_opts, last, conc, wal>>
  /\ ResFrame

(***************************************************************************)
(* Point operations                                                        *)
(***************************************************************************)
get_term(g, st, cf, key) ==
  LET cf_name == cf_atom_to_name(cf) IN
  IF cf_name = "none" THEN InvalidCf(cf)
  ELSE IF g = "None" THEN AlreadyClosed
  ELSE IF cf_name \notin CfNameSet THEN InvalidCf(cf)
  ELSE LET v == db_get_cf(st, cf_name, key) IN
       IF v = NoVal THEN NotFound ELSE OkVal(v)

get(cf, key) ==
  /\ db_ref_live
  /\ last' = Call("get", cf, key, <<>>, 0, get_term(inner, store, cf, key))
  /\ UNCHANGED store
  /\ HandleFrame
  /\ ResFrame

\* an exists that reads the engine without looking at the Option of the handle
exists_term_unchecked(g, st, cf, key) ==
  LET cf_name == cf_atom_to_name(cf) IN
  IF cf_name = "none" THEN InvalidCf(cf)
  ELSE IF db_get_cf(st, cf_name, key) = NoVal THEN OkVal(<<FALSE>>) ELSE OkVal(<<TRUE>>)

exists_term(g, st, cf, key) ==
  LET cf_name == cf_atom_to_name(cf) IN
  IF cf_name = "none" THEN InvalidCf(cf)
  ELSE IF g = "None" THEN AlreadyClosed
  ELSE IF cf_name \notin CfNameSet THEN InvalidCf(cf)
  ELSE LET v == db_get_cf(st, cf_name, key) IN
       IF v = NoVal THEN OkVal(<<FALSE>>) ELSE OkVal(<<TRUE>>)

exists(cf, key) ==
  /\ db_ref_live
  /\ last' = Call("exists", cf, key, <<>>, 0, exists_term(inner, store, cf, key))
  /\ UNCHANGED store
  /\ HandleFrame
  /\ ResFrame

\* put and delete: the term returned and the store left behind
\* a put that does not look at the state of the handle
put_term_unchecked(g, cf) ==
  IF cf_atom_to_name(cf) = "none" THEN InvalidCf(cf) ELSE Ok

put_term(g, cf) ==
  LET cf_name == cf_atom_to_name(cf) IN
  IF cf_name = "none" THEN InvalidCf(cf)
  ELSE IF g = "None" THEN AlreadyClosed
  ELSE IF cf_name \notin CfNameSet THEN InvalidCf(cf)
  ELSE Ok

\* a put that returns ok and leaves the engine as it is
put_store_dropped(g, st, cf, key, value) == st

put_store(g, st, cf, key, value) ==
  IF put_term(g, cf) = Ok THEN db_put_cf(st, cf_atom_to_name(cf), key, value) ELSE st

put(cf, key, value) ==
  /\ db_ref_live
  /\ last' = Call("put", cf, key, value, 0, put_term(inner, cf))
  /\ store' = put_store(inner, store, cf, key, value)
  /\ wal' = IF put_term(inner, cf) = Ok
            THEN wal_write(wal, store', DefaultWriteOptions) ELSE wal
  /\ WriteFrame
  /\ ResFrame

delete_term(g, cf) ==
  LET cf_name == cf_atom_to_name(cf) IN
  IF cf_name = "none" THEN InvalidCf(cf)
  ELSE IF g = "None" THEN AlreadyClosed
  ELSE IF cf_name \notin CfNameSet THEN InvalidCf(cf)
  ELSE Ok

delete_store(g, st, cf, key) ==
  IF delete_term(g, cf) = Ok THEN db_delete_cf(st, cf_atom_to_name(cf), key) ELSE st

delete(cf, key) ==
  /\ db_ref_live
  /\ last' = Call("delete", cf, key, <<>>, 0, delete_term(inner, cf))
  /\ store' = delete_store(inner, store, cf, key)
  /\ wal' = IF delete_term(inner, cf) = Ok
            THEN wal_write(wal, store', DefaultWriteOptions) ELSE wal
  /\ WriteFrame
  /\ ResFrame

(***************************************************************************)
(* Batch operations                                                        *)
(***************************************************************************)
\* the outcome of parsing one entry: an engine operation or the term the
\* call returns at once
Good(o) == [ok |-> TRUE, o |-> o, term |-> Ok]
Bad(term) == [ok |-> FALSE, o |-> <<>>, term |-> term]

PutOp(cf_name, key, value) == <<"put", cf_name, key, value>>
DeleteOp(cf_name, key) == <<"delete", cf_name, key, <<>>>>

\* {cf, key, value}: decode the three fields, then resolve the family
put3_entry(tuple) ==
  IF ~is_atom(tuple[1]) THEN Bad(Raise("expected atom for cf"))
  ELSE IF ~is_binary(tuple[2]) THEN Bad(Raise("expected binary for key"))
  ELSE IF ~is_binary(tuple[3]) THEN Bad(Raise("expected binary for value"))
  ELSE IF cf_atom_to_name(tuple[1][2]) = "none" THEN Bad(InvalidCf(tuple[1][2]))
  ELSE Good(PutOp(cf_atom_to_name(tuple[1][2]), tuple[2][2], tuple[3][2]))

write_batch_entry(item) ==
  IF ~is_tuple(item) THEN Bad(Raise("expected tuple"))
  ELSE LET tuple == item[2] IN
    IF Len(tuple) = 3 THEN put3_entry(tuple)
    ELSE IF Len(tuple) = 4 THEN
      IF ~is_atom(tuple[1]) THEN Bad(Raise("expected atom for operation"))
      ELSE IF ~is_atom(tuple[2]) THEN Bad(Raise("expected atom for cf"))
      ELSE IF ~is_binary(tuple[3]) THEN Bad(Raise("expected binary for key"))
      ELSE IF ~is_binary(tuple[4]) THEN Bad(Raise("expected binary for value"))
      ELSE IF tuple[1][2] # ":put" THEN Bad(InvalidOperationTag(tuple[1][2]))
      ELSE IF cf_atom_to_name(tuple[2][2]) = "none" THEN Bad(InvalidCf(tuple[2][2]))
      ELSE Good(PutOp(cf_atom_to_name(tuple[2][2]), tuple[3][2], tuple[4][2]))
    ELSE Bad(InvalidOperation)

delete_batch_entry(item) ==
  IF ~is_tuple(item) THEN Bad(Raise("expected tuple"))
  ELSE LET tuple == item[2] IN
    IF Len(tuple) # 2 THEN Bad(InvalidOperation)
    ELSE IF ~is_atom(tuple[1]) THEN Bad(Raise("expected atom for cf"))
    ELSE IF ~is_binary(tuple[2]) THEN Bad(Raise("expected binary for key"))
    ELSE IF cf_atom_to_name(tuple[1][2]) = "none" THEN Bad(InvalidCf(tuple[1][2]))
    ELSE Good(DeleteOp(cf_atom_to_name(tuple[1][2]), tuple[2][2]))

\* an else branch that takes a 3-element entry as the put write_batch takes
mixed_batch_other_put(tuple) ==
  IF Len(tuple) = 3 THEN put3_entry(tuple) ELSE Bad(InvalidOperationTag(tuple[1][2]))

\* the else branch of mixed_batch: the first element is neither put nor delete
mixed_batch_other(tuple) == Bad(InvalidOperationTag(tuple[1][2]))

mixed_batch_entry(item) ==
  IF ~is_tuple(item) THEN Bad(Raise("expected tuple"))
  ELSE LET tuple == item[2] IN
    IF Len(tuple) = 0 THEN Bad(InvalidOperation)
    ELSE IF ~is_atom(tuple[1]) THEN Bad(Raise("expected atom for operation"))
    ELSE IF tuple[1][2] = ":put" THEN
      IF Len(tuple) # 4 THEN Bad(InvalidOperation)
      ELSE IF ~is_atom(tuple[2]) THEN Bad(Raise("expected atom for cf"))
      ELSE IF ~is_binary(tuple[3]) THEN Bad(Raise("expected binary for key"))
      ELSE IF ~is_binary(tuple[4]) THEN Bad(Raise("expected binary for value"))
      ELSE IF cf_atom_to_name(tuple[2][2]) = "none" THEN Bad(InvalidCf(tuple[2][2]))
      ELSE Good(PutOp(cf_atom_to_name(tuple[2][2]), tuple[3][2], tuple[4][2]))
    ELSE IF tuple[1][2] = ":delete" THEN
      IF Len(tuple) # 3 THEN Bad(InvalidOperation)
      ELSE IF ~is_atom(tuple[2]) THEN Bad(Raise("expected atom for cf"))
      ELSE IF ~is_binary(tuple[3]) THEN Bad(Raise("expected binary for key"))
      ELSE IF cf_atom_to_name(tuple[2][2]) = "none" THEN Bad(InvalidCf(tuple[2][2]))
      ELSE Good(DeleteOp(cf_atom_to_name(tuple[2][2]), tuple[3][2]))
    ELSE mixed_batch_other(tuple)

batch_entry(op, item) ==
  IF op = "write_batch" THEN write_batch_entry(item)
  ELSE IF op = "delete_batch" THEN delete_batch_entry(item)
  ELSE mixed_batch_entry(item)

\* the loop over the operations: it fills the local WriteBatch and returns
\* at the first entry that is not accepted
RECURSIVE parse_batch(_, _, _)
parse_batch(op, operations, batch) ==
  IF operations = <<>> THEN [ok |-> TRUE, batch |-> batch, term |-> Ok]
  ELSE LET e == batch_entry(op, Head(operations)) IN
       IF ~e.ok THEN [ok |-> FALSE, batch |-> batch, term |-> e.term]
       ELSE parse_batch(op, Tail(operations), Append(batch, e.o))

\* a batch call that writes each entry to the engine as soon as it is
\* accepted, instead of collecting the entries in a WriteBatch
batch_outcomes_each(op, g, st, operations) ==
  IF g = "None" THEN {[term |-> AlreadyClosed, store |-> st]}
  ELSE LET p == parse_batch(op, operations, <<>>) IN
       {[term |-> p.term, store |-> db_write(st, p.batch)]}

\* the outcomes of a batch call: the term returned and the store left.
\* The single DB::write_opt at the end applies the whole batch or fails.
batch_outcomes(op, g, st, operations) ==
  IF g = "None" THEN {[term |-> AlreadyClosed, store |-> st]}
  ELSE LET p == parse_batch(op, operations, <<>>) IN
       IF ~p.ok THEN {[term |-> p.term, store |-> st]}
       ELSE {[term |-> Ok, store |-> db_write(st, p.batch)],
             [term |-> BatchFailed, store |-> st]}

\* a batch call: the entries are parsed into a WriteBatch, which write_opt
\* hands to the engine with the write options made from the flag
batch_write(op, operations, sync) ==
  /\ db_ref_live
  /\ \E out \in batch_outcomes(op, inner, store, operations) :
       /\ last' = SyncCall(BatchCall(op, operations, out.term), sync)
       /\ store' = out.store
       /\ wal' = IF out.term = Ok
                 THEN wal_write(wal, out.store, write_options(sync)) ELSE wal
  /\ WriteFrame
  /\ ResFrame

\* a batch call with either flag
batch_call(op, operations) == \E sync \in BOOLEAN : batch_write(op, operations, sync)

write_batch(operations, sync) == batch_write("write_batch", operations, sync)

delete_batch(operations, sync) == batch_write("delete_batch", operations, sync)

mixed_batch(operations, sync) == batch_write("mixed_batch", operations, sync)

(***************************************************************************)
(* WAL flush                                                               *)
(***************************************************************************)
FlushFailed == Err(<<"flush_failed">>)

flush_wal_terms(g) == IF g = "None" THEN {AlreadyClosed} ELSE {Ok, FlushFailed}

flush_wal(sync) ==
  /\ db_ref_live
  /\ \E r \in flush_wal_terms(inner) :
       /\ last' = SyncCall(Call("flush_wal", "", <<>>, <<>>, 0, r), sync)
       /\ wal' = IF r = Ok THEN wal_flush(wal, store, sync) ELSE wal
  /\ UNCHANGED store
  /\ WriteFrame
  /\ ResFrame

(***************************************************************************)
(* Runtime option tuning                                                   *)
(***************************************************************************)
SetOptionsFailed(cf_name) == Err(<<"set_options_failed", cf_name>>)

\* a loop that leaves the new options on the family it fails on
set_options_opts_through(opts, options, f) ==
  [cf \in CfNameSet |->
     IF \E n \in 1..Len(CF_NAMES) : CF_NAMES[n] = cf /\ (f = 0 \/ n <= f)
     THEN options ELSE opts[cf]]

\* the loop over CF_NAMES: DB::set_options_cf succeeds on the families
\* before position f and fails on family f (f = 0: it fails on none)
set_options_opts(opts, options, f) ==
  [cf \in CfNameSet |->
     IF \E n \in 1..Len(CF_NAMES) : CF_NAMES[n] = cf /\ (f = 0 \/ n < f)
     THEN options ELSE opts[cf]]

set_options_term(f) == IF f = 0 THEN Ok ELSE SetOptionsFailed(CF_NAMES[f])

\* f is the position of the family the engine refuses the options on
set_options(options, f) ==
  /\ db_ref_live
  /\ f \in 0..Len(CF_NAMES)
  /\ IF inner = "None"
     THEN /\ last' = Call("set_options", "", <<>>, <<>>, 0, AlreadyClosed)
          /\ UNCHANGED cf_opts
     ELSE /\ cf_opts' = set_options_opts(cf_opts, options, f)
          /\ last' = Call("set_options", "", <<>>, <<>>, 0, set_options_term(f))
  /\ UNCHANGED <<inner, db_ref_live, strong, db_alive, store, conc, wal>>
  /\ ResFrame

(***************************************************************************)
(* Iterator operations                                                     *)
(***************************************************************************)
\* an IteratorRef / SnapshotIteratorRef resource: res is "free" (not yet
\* created), "live" or "dropped" (collected); some says whether the
\* Mutex<Option<..>> holds a cursor
IterRec(res, some, iterator, prefix, cf_name) ==
  [res |-> res, some |-> some, iterator |-> iterator, prefix |-> prefix, cf_name |-> cf_name]

FreeIter == IterRec("free", FALSE, NoCursor, <<>>, "")

DroppedIter == IterRec("dropped", FALSE, NoCursor, <<>>, "")

FreeIterIds == {i \in IterIds : iters[i].res = "free"}

\* a selection that seeks by prefix in a prefix-indexed family whatever the
\* length of the prefix
select_read_opts_prefix(cf_name, prefix_bytes) ==
  IF cf_name \in PREFIX_CFS
  THEN [prefix_same_as_start |-> TRUE, total_order_seek |-> FALSE]
  ELSE DefaultReadOpts

\* the read options prefix_iterator and snapshot_prefix_iterator select
select_read_opts(cf_name, prefix_bytes) ==
  IF cf_name \in PREFIX_CFS
  THEN IF Len(prefix_bytes) >= PREFIX_LENGTH
       THEN [prefix_same_as_start |-> TRUE, total_order_seek |-> FALSE]
       ELSE [prefix_same_as_start |-> FALSE, total_order_seek |-> TRUE]
  ELSE DefaultReadOpts

\* a prefix_iterator that borrows the handle's reference instead of cloning it
prefix_iterator_arc_borrowed(n) == n

\* the Arc<SharedDb> count after prefix_iterator took its own reference
prefix_iterator_arc(n) == ArcClone(n)

prefix_iterator(cf, prefix) ==
  LET cf_name == cf_atom_to_name(cf) IN
  /\ db_ref_live
  /\ IF cf_name = "none"
     THEN /\ last' = Call("prefix_iterator", cf, prefix, <<>>, 0, InvalidCf(cf))
          /\ UNCHANGED <<strong, iters>>
     ELSE IF inner = "None"
     THEN /\ last' = Call("prefix_iterator", cf, prefix, <<>>, 0, AlreadyClosed)
          /\ UNCHANGED <<strong, iters>>
     ELSE /\ FreeIterIds # {}
          /\ LET i == CHOOSE j \in FreeIterIds : \A m \in FreeIterIds : j <= m
                 read_opts == select_read_opts(cf_name, prefix)
             IN \E rest \in db_iterator_cf_opt(store[cf_name], cf_name, read_opts, prefix) :
                  /\ iters' = [iters EXCEPT ![i] =
                       IterRec("live", TRUE, Cursor(store[cf_name], rest, read_opts),
                               prefix, cf_name)]
                  /\ last' = Call("prefix_iterator", cf, prefix, <<>>, i, OkVal(<<"iterator", i>>))
          /\ strong' = prefix_iterator_arc(strong)
  /\ UNCHANGED <<inner, db_ref_live, db_alive, store, cf_opts, snaps, snapiters, conc, wal>>

\* DBIterator::next followed by the wrapper's prefix check: the term
\* returned and the cursor left behind (the key read is consumed either way)
\* an iterator_next that returns the key read without the prefix check
next_term_unbounded(it) ==
  LET c == it.iterator IN
  IF c.rest = <<>> THEN IteratorEnd
  ELSE OkKV(Head(c.rest), c.view[Head(c.rest)])

next_term(it) ==
  LET c == it.iterator IN
  IF c.rest = <<>> THEN IteratorEnd
  ELSE IF ~starts_with(Head(c.rest), it.prefix) THEN IteratorEnd
  ELSE OkKV(Head(c.rest), c.view[Head(c.rest)])

next_cursor(it) ==
  LET c == it.iterator IN
  IF c.rest = <<>> THEN c ELSE [c EXCEPT !.rest = Tail(c.rest)]

\* iterator_next / snapshot_iterator_next on a resource record; alive says
\* whether the SharedDb the cursor points into still exists
iter_next_terms(it, alive) ==
  IF ~it.some THEN {IteratorClosed}
  ELSE IF ~alive THEN UBOutcomes
  ELSE {next_term(it)}

iter_next_rec(it, alive) ==
  IF ~it.some \/ ~alive THEN it
  ELSE [it EXCEPT !.iterator = next_cursor(it)]

iterator_next(i) ==
  /\ iters[i].res = "live"
  /\ \E r \in iter_next_terms(iters[i], db_alive) :
       last' = Call("iterator_next", "", <<>>, <<>>, i, r)
  /\ iters' = [iters EXCEPT ![i] = iter_next_rec(iters[i], db_alive)]
  /\ UNCHANGED <<store, snaps, snapiters>>
  /\ HandleFrame

\* the cursor iterator_seek installs: a new engine iterator over the live
\* contents, created with default read options
\* a seek that installs a cursor over no data
seek_cursors_empty(st, cf_name, target) == {NoCursor}

seek_cursors(st, cf_name, target) ==
  {Cursor(st[cf_name], rest, DefaultReadOpts) :
     rest \in db_iterator_cf_opt(st[cf_name], cf_name, DefaultReadOpts, target)}

iterator_seek(i, target) ==
  /\ iters[i].res = "live"
  /\ IF ~iters[i].some
     THEN /\ last' = Call("iterator_seek", "", target, <<>>, i, IteratorClosed)
          /\ UNCHANGED iters
     ELSE IF ~db_alive
     THEN /\ \E r \in UBOutcomes : last' = Call("iterator_seek", "", target, <<>>, i, r)
          /\ UNCHANGED iters
     ELSE /\ \E c \in seek_cursors(store, iters[i].cf_name, target) :
               iters' = [iters EXCEPT ![i].iterator = c]
          /\ last' = Call("iterator_seek", "", target, <<>>, i, Ok)
  /\ UNCHANGED <<store, snaps, snapiters>>
  /\ HandleFrame

\* the loop of iterator_collect: entries are taken while the key has the
\* prefix; the first key without it is read (consumed) and ends the loop
RECURSIVE collect_list(_, _, _)
collect_list(view, rest, prefix) ==
  IF rest = <<>> THEN <<>>
  ELSE IF ~starts_with(Head(rest), prefix) THEN <<>>
  ELSE <<<<Head(rest), view[Head(rest)]>>>> \o collect_list(view, Tail(rest), prefix)

RECURSIVE collect_rest(_, _)
collect_rest(rest, prefix) ==
  IF rest = <<>> THEN <<>>
  ELSE IF ~starts_with(Head(rest), prefix) THEN Tail(rest)
  ELSE collect_rest(Tail(rest), prefix)

iter_collect_terms(it, alive) ==
  IF ~it.some THEN {IteratorClosed}
  ELSE IF ~alive THEN UBOutcomes
  ELSE {OkVal(collect_list(it.iterator.view, it.iterator.rest, it.prefix))}

iter_collect_rec(it, alive) ==
  IF ~it.some \/ ~alive THEN it
  ELSE [it EXCEPT !.iterator.rest = collect_rest(it.iterator.rest, it.prefix)]

iterator_collect(i) ==
  /\ iters[i].res = "live"
  /\ \E r \in iter_collect_terms(iters[i], db_alive) :
       last' = Call("iterator_collect", "", <<>>, <<>>, i, r)
  /\ iters' = [iters EXCEPT ![i] = iter_collect_rec(iters[i], db_alive)]
  /\ UNCHANGED <<store, snaps, snapiters>>
  /\ HandleFrame

iter_close_term(it) == IF ~it.some THEN IteratorClosed ELSE Ok

\* an iterator_close that returns ok and leaves the cursor in place
iter_close_rec_kept(it) == it

\* *iter_guard = None: the cursor is dropped, the Arc<SharedDb> is kept
iter_close_rec(it) ==
  IF ~it.some THEN it ELSE [it EXCEPT !.some = FALSE, !.iterator = NoCursor]

iterator_close(i) ==
  /\ iters[i].res = "live"
  /\ last' = Call("iterator_close", "", <<>>, <<>>, i, iter_close_term(iters[i]))
  /\ iters' = [iters EXCEPT ![i] = iter_close_rec(iters[i])]
  /\ UNCHANGED <<store, snaps, snapiters>>
  /\ HandleFrame

\* the IteratorRef resource is collected: cursor first, then its Arc<SharedDb>
drop_iterator(i) ==
  /\ iters[i].res = "live"
  /\ iters' = [iters EXCEPT ![i] = DroppedIter]
  /\ strong' = ArcDrop(strong)
  /\ db_alive' = AliveAfter(db_alive, strong')
  /\ UNCHANGED <<inner, db_ref_live, store, cf_opts, snaps, snapiters, last, conc, wal>>

(***************************************************************************)
(* Snapshot operations                                                     *)
(***************************************************************************)
\* a SnapshotRef resource: the frozen view of all column families
SnapRec(res, some, view) == [res |-> res, some |-> some, view |-> view]

FreeSnap == SnapRec("free", FALSE, EmptyStore)

DroppedSnap == SnapRec("dropped", FALSE, EmptyStore)

FreeSnapIds == {s \in SnapIds : snaps[s].res = "free"}

FreeSnapIterIds == {i \in SnapIterIds : snapiters[i].res = "free"}

\* a snapshot that borrows the handle's reference instead of cloning it
snapshot_arc_borrowed(n) == n

\* the Arc<SharedDb> count after snapshot took its own reference
snapshot_arc(n) == ArcClone(n)

\* DB::snapshot(): the contents the snapshot freezes
db_snapshot(st) == st

snapshot ==
  /\ db_ref_live
  /\ IF inner = "None"
     THEN /\ last' = Call("snapshot", "", <<>>, <<>>, 0, AlreadyClosed)
          /\ UNCHANGED <<strong, snaps>>
     ELSE /\ FreeSnapIds # {}
          /\ LET s == CHOOSE j \in FreeSnapIds : \A m \in FreeSnapIds : j <= m IN
               /\ snaps' = [snaps EXCEPT ![s] = SnapRec("live", TRUE, db_snapshot(store))]
               /\ last' = Call("snapshot", "", <<>>, <<>>, s, OkVal(<<"snapshot", s>>))
          /\ strong' = snapshot_arc(strong)
  /\ UNCHANGED <<inner, db_ref_live, db_alive, store, cf_opts, iters, snapiters, conc, wal>>

\* get_cf_opt with the snapshot set in the read options
db_get_cf_opt(view, cf_name, key) == view[cf_name][key]

\* a read that leaves the snapshot out of the read options
snapshot_read_live(view, st, cf_name, key) == db_get_cf(st, cf_name, key)

\* the engine read of snapshot_get: through the frozen view, whatever the
\* live contents st are
snapshot_read(view, st, cf_name, key) == db_get_cf_opt(view, cf_name, key)

snapshot_get_terms(sn, alive, st, cf, key) ==
  LET cf_name == cf_atom_to_name(cf) IN
  IF cf_name = "none" THEN {InvalidCf(cf)}
  ELSE IF ~sn.some THEN {SnapshotReleased}
  ELSE IF ~alive THEN UBOutcomes
  ELSE IF cf_name \notin CfNameSet THEN {InvalidCf(cf)}
  ELSE LET v == snapshot_read(sn.view, st, cf_name, key) IN
       {IF v = NoVal THEN NotFound ELSE OkVal(v)}

snapshot_get(s, cf, key) ==
  /\ snaps[s].res = "live"
  /\ \E r \in snapshot_get_terms(snaps[s], db_alive, store, cf, key) :
       last' = Call("snapshot_get", cf, key, <<>>, s, r)
  /\ UNCHANGED store
  /\ HandleFrame
  /\ ResFrame

\* a snapshot iterator created without the snapshot in its read options
snapshot_iter_view_live(sn, st, cf_name) == st[cf_name]

\* the contents the engine iterator of snapshot_prefix_iterator reads:
\* read_opts.set_snapshot(snapshot) pins them to the frozen view, whatever
\* the live contents st are
snapshot_iter_view(sn, st, cf_name) == sn.view[cf_name]

\* the Arc<SharedDb> count after snapshot_prefix_iterator cloned the
\* snapshot's reference
snapshot_prefix_iterator_arc(n) == ArcClone(n)

snapshot_prefix_iterator(s, cf, prefix) ==
  LET cf_name == cf_atom_to_name(cf) IN
  /\ snaps[s].res = "live"
  /\ IF cf_name = "none"
     THEN /\ last' = Call("snapshot_prefix_iterator", cf, prefix, <<>>, s, InvalidCf(cf))
          /\ UNCHANGED <<strong, snapiters>>
     ELSE IF ~snaps[s].some
     THEN /\ last' = Call("snapshot_prefix_iterator", cf, prefix, <<>>, s, SnapshotReleased)
          /\ UNCHANGED <<strong, snapiters>>
     ELSE IF ~db_alive
     THEN /\ \E r \in UBOutcomes :
               last' = Call("snapshot_prefix_iterator", cf, prefix, <<>>, s, r)
          /\ UNCHANGED <<strong, snapiters>>
     ELSE /\ FreeSnapIterIds # {}
          /\ LET i == CHOOSE j \in FreeSnapIterIds : \A m \in FreeSnapIterIds : j <= m
                 read_opts == select_read_opts(cf_name, prefix)
                 view == snapshot_iter_view(snaps[s], store, cf_name)
             IN \E rest \in db_iterator_cf_opt(view, cf_name, read_opts, prefix) :
                  /\ snapiters' = [snapiters EXCEPT ![i] =
                       IterRec("live", TRUE, Cursor(view, rest, read_opts), prefix, cf_name)]
                  /\ last' = Call("snapshot_prefix_iterator", cf, prefix, <<>>, s,
                                  OkVal(<<"snapshot_iterator", i>>))
          /\ strong' = snapshot_prefix_iterator_arc(strong)
  /\ UNCHANGED <<inner, db_ref_live, db_alive, store, cf_opts, iters, snaps, conc, wal>>

snapshot_iterator_next(i) ==
  /\ snapiters[i].res = "live"
  /\ \E r \in iter_next_terms(snapiters[i], db_alive) :
       last' = Call("snapshot_iterator_next", "", <<>>, <<>>, i, r)
  /\ snapiters' = [snapiters EXCEPT ![i] = iter_next_rec(snapiters[i], db_alive)]
  /\ UNCHANGED <<store, iters, snaps>>
  /\ HandleFrame

snapshot_iterator_close(i) ==
  /\ snapiters[i].res = "live"
  /\ last' = Call("snapshot_iterator_close", "", <<>>, <<>>, i, iter_close_term(snapiters[i]))
  /\ snapiters' = [snapiters EXCEPT ![i] = iter_close_rec(snapiters[i])]
  /\ UNCHANGED <<store, iters, snaps>>
  /\ HandleFrame

snapshot_iterator_collect(i) ==
  /\ snapiters[i].res = "live"
  /\ \E r \in iter_collect_terms(snapiters[i], db_alive) :
       last' = Call("snapshot_iterator_collect", "", <<>>, <<>>, i, r)
  /\ snapiters' = [snapiters EXCEPT ![i] = iter_collect_rec(snapiters[i], db_alive)]
  /\ UNCHANGED <<store, iters, snaps>>
  /\ HandleFrame

release_term(sn) == IF ~sn.some THEN SnapshotReleased ELSE Ok

\* a release_snapshot that returns ok and leaves the snapshot in place
release_rec_kept(sn) == sn

\* *snap_guard = None: the frozen view is dropped, the Arc<SharedDb> is kept
release_rec(sn) ==
  IF ~sn.some THEN sn ELSE [sn EXCEPT !.some = FALSE, !.view = EmptyStore]

release_snapshot(s) ==
  /\ snaps[s].res = "live"
  /\ last' = Call("release_snapshot", "", <<>>, <<>>, s, release_term(snaps[s]))
  /\ snaps' = [snaps EXCEPT ![s] = release_rec(snaps[s])]
  /\ UNCHANGED <<store, iters, snapiters>>
  /\ HandleFrame

\* the SnapshotRef resource is collected: snapshot first, then its Arc<SharedDb>
drop_snapshot(s) ==
  /\ snaps[s].res = "live"
  /\ snaps' = [snaps EXCEPT ![s] = DroppedSnap]
  /\ strong' = ArcDrop(strong)
  /\ db_alive' = AliveAfter(db_alive, strong')
  /\ UNCHANGED <<inner, db_ref_live, store, cf_opts, iters, snapiters, last, conc, wal>>

drop_snapshot_iterator(i) ==
  /\ snapiters[i].res = "live"
  /\ snapiters' = [snapiters EXCEPT ![i] = DroppedIter]
  /\ strong' = ArcDrop(strong)
  /\ db_alive' = AliveAfter(db_alive, strong')
  /\ UNCHANGED <<inner, db_ref_live, store, cf_opts, iters, snaps, last, conc, wal>>

(***************************************************************************)
(* Specification of the lifecycle: every resource kind, few data           *)
(***************************************************************************)
Opened ==
  /\ inner = "Some"
  /\ db_ref_live = TRUE
  /\ strong = 1
  /\ db_alive = TRUE
  /\ store \in InitStores
  /\ iters = [i \in IterIds |-> FreeIter]
  /\ snaps = [s \in SnapIds |-> FreeSnap]
  /\ snapiters = [i \in SnapIterIds |-> FreeIter]
  /\ cf_opts = [cf \in CfNameSet |-> 0]
  /\ last = NoCall
  /\ pc = [t \in Threads |-> "idle"]
  /\ call = [t \in Threads |-> NoTCall]
  /\ readers = {}
  /\ writer = NoThread
  /\ mutex = [r \in Resources |-> NoThread]
  /\ calls = 0

\* the state after open; the operating system writes the log through
Init == Opened /\ wal = Log(store, "write_through")

\* the lifecycle of the handle and of every kind of dependent resource
Next ==
  \/ close
  \/ is_open
  \/ drop_db_ref
  \/ \E cf \in {":spo"}, p \in {<<1>>} : prefix_iterator(cf, p)
  \/ \E i \in IterIds : iterator_close(i)
  \/ \E i \in IterIds : drop_iterator(i)
  \/ snapshot
  \/ \E s \in SnapIds, cf \in {":spo"}, p \in {<<1>>} : snapshot_prefix_iterator(s, cf, p)
  \/ \E s \in SnapIds : release_snapshot(s)
  \/ \E s \in SnapIds : drop_snapshot(s)
  \/ \E i \in SnapIterIds : snapshot_iterator_close(i)
  \/ \E i \in SnapIterIds : drop_snapshot_iterator(i)

Spec == Init /\ [][Next]_vars

(***************************************************************************)
(* Ownership of the SharedDb                                               *)
(***************************************************************************)
LiveIters == {i \in IterIds : iters[i].res = "live"}
LiveSnaps == {s \in SnapIds : snaps[s].res = "live"}
LiveSnapIters == {i \in SnapIterIds : snapiters[i].res = "live"}

\* the owners: the handle while it is open, and every dependent resource
OwnerCount ==
  (IF db_ref_live /\ inner = "Some" THEN 1 ELSE 0)
  + Cardinality(LiveIters) + Cardinality(LiveSnaps) + Cardinality(LiveSnapIters)

\* C1: the SharedDb is alive as long as at least one owner (the open handle,
\* an iterator, a snapshot or a snapshot iterator) holds a reference to it;
\* it is dropped only when the last of them is gone.
C1_AliveWhileOwned ==
  /\ OwnerCount > 0 => db_alive
  /\ strong = OwnerCount

\* close has returned ok while an iterator and a snapshot iterator exist
C1_Witness ==
  /\ last.op = "close" /\ last.result = Ok
  /\ inner = "None"
  /\ LiveIters # {} /\ LiveSnapIters # {}
  /\ db_alive

\* everything but the record of the last call
state == <<inner, db_ref_live, strong, db_alive, store, iters, snaps, snapiters, cf_opts>>

\* C3: is_open is true until the first close, which returns ok; from then
\* on is_open is false, every further close returns already_closed and
\* changes nothing, and the handle never becomes open again.
C3_OpenUntilClose ==
  [][/\ (last'.op = "is_open" /\ is_open) => last'.result = <<inner = "Some">>
     /\ (last'.op = "close" /\ close /\ inner = "Some") =>
          last'.result = Ok /\ inner' = "None"
     /\ (last'.op = "close" /\ close /\ inner = "None") =>
          last'.result = AlreadyClosed /\ state' = state
     /\ inner = "None" => inner' = "None"
     /\ (inner = "Some" /\ inner' = "None") => last'.op = "close" /\ last'.result = Ok
    ]_vars

\* a second close has been refused
C3_Witness ==
  /\ last.op = "close" /\ last.result = AlreadyClosed
  /\ inner = "None" /\ db_ref_live

(***************************************************************************)
(* Specification of the iterators, with a few writes to the scanned family  *)
(***************************************************************************)
\* the seek targets of this specification: inside and past the prefix <<1>>
SeekTargets == {<<1, 2>>, <<2>>}

NextIter ==
  \/ close
  \/ put(":spo", <<1, 2>>, <<7>>)
  \/ delete(":spo", <<1, 1>>)
  \/ \E cf \in {":spo", ":bogus"}, p \in Prefixes : prefix_iterator(cf, p)
  \/ \E i \in IterIds : iterator_next(i)
  \/ \E i \in IterIds, t \in SeekTargets : iterator_seek(i, t)
  \/ \E i \in IterIds : iterator_collect(i)
  \/ \E i \in IterIds : iterator_close(i)
  \/ \E i \in IterIds : drop_iterator(i)

SpecIter == Init /\ [][NextIter]_vars

\* the iterator i is open and its handle has been closed
OpenAfterClose(i) ==
  inner = "None" /\ iters[i].res = "live" /\ iters[i].some

\* C2: on an iterator created on an open handle, after close(handle)
\* iterator_next, iterator_seek and iterator_collect return what they return
\* while the handle is open (the engine alive): never already_closed, never
\* a crash, and the cursor moves the same way.
C2_IteratorSurvivesClose ==
  [][\A i \in IterIds : OpenAfterClose(i) =>
       /\ (last'.op = "iterator_next" /\ iterator_next(i)) =>
            /\ last'.result \in iter_next_terms(iters[i], TRUE)
            /\ iters'[i] = iter_next_rec(iters[i], TRUE)
       /\ (last'.op = "iterator_collect" /\ iterator_collect(i)) =>
            /\ last'.result \in iter_collect_terms(iters[i], TRUE)
            /\ iters'[i] = iter_collect_rec(iters[i], TRUE)
       /\ \A t \in SeekTargets : (last'.op = "iterator_seek" /\ iterator_seek(i, t)) =>
            /\ last'.result = Ok
            /\ iters'[i].iterator \in seek_cursors(store, iters[i].cf_name, t)]_vars

\* after close, iterator_next has delivered the second entry of the scan
C2_Witness ==
  /\ inner = "None"
  /\ last.op = "iterator_next"
  /\ last.result = OkKV(<<1, 2>>, <<8>>)
  /\ iters[last.id].iterator.rest = <<<<2, 1>>>>

(***************************************************************************)
(* Specification of the operations that go through the handle              *)
(***************************************************************************)
\* the arguments of this specification
HandleCfs == {":spo", ":bogus"}
HandleKeys == {<<1, 1>>}
HandleLists ==
  { <<Tuple(<<Atom(":spo"), Bin(<<1, 1>>), Bin(<<7>>)>>)>>,
    <<Tuple(<<Atom(":spo"), Bin(<<1, 1>>)>>)>>,
    <<Tuple(<<Atom(":delete"), Atom(":spo"), Bin(<<1, 1>>)>>)>>,
    <<Tuple(<<Atom(":put"), Atom(":bogus"), Bin(<<1, 2>>), Bin(<<7>>)>>)>> }

NextHandle ==
  \/ close
  \/ is_open
  \/ get_path
  \/ \E cf \in HandleCfs, k \in HandleKeys : get(cf, k)
  \/ \E cf \in HandleCfs, k \in HandleKeys : exists(cf, k)
  \/ \E cf \in HandleCfs, k \in HandleKeys : put(cf, k, <<7>>)
  \/ \E cf \in HandleCfs, k \in HandleKeys : delete(cf, k)
  \/ \E l \in HandleLists : write_batch(l, TRUE)
  \/ \E l \in HandleLists : delete_batch(l, FALSE)
  \/ \E l \in HandleLists : mixed_batch(l, TRUE)
  \/ \E cf \in HandleCfs, p \in {<<1>>} : prefix_iterator(cf, p)
  \/ snapshot
  \/ \E sync \in BOOLEAN : flush_wal(sync)
  \/ \E o \in OptionLists, f \in {0, 1} : set_options(o, f)

SpecHandle == Init /\ [][NextHandle]_vars

\* the operations that dereference the handle
DataOps ==
  {"get", "put", "delete", "exists", "write_batch", "delete_batch", "mixed_batch",
   "prefix_iterator", "snapshot", "flush_wal", "set_options", "get_path"}

\* the operations that resolve their column family before they look at the handle
FamilyFirstOps == {"get", "put", "delete", "exists", "prefix_iterator"}

SnapBatch ==
  << Tuple(<<Atom(":put"), Atom(":spo"), Bin(<<1, 2>>), Bin(<<7>>)>>),
     Tuple(<<Atom(":delete"), Atom(":spo"), Bin(<<1, 1>>)>>) >>

NextSnap ==
  \/ close
  \/ put(":spo", <<1, 2>>, <<7>>)
  \/ delete(":spo", <<1, 1>>)
  \/ mixed_batch(SnapBatch, FALSE)
  \/ snapshot
  \/ \E s \in SnapIds, cf \in {":spo", ":bogus"}, k \in {<<1, 1>>, <<1, 2>>} :
       snapshot_get(s, cf, k)
  \/ \E s \in SnapIds : release_snapshot(s)
  \/ \E s \in SnapIds : drop_snapshot(s)

SpecSnap == Init /\ [][NextSnap]_vars

\* the term of a read that finds the value v
ReadTerm(v) == IF v = NoVal THEN NotFound ELSE OkVal(v)

\* the snapshot s is there and not released
Held(s) == snaps[s].res = "live" /\ snaps[s].some

\* C7: snapshot_get(S, cf, key) returns the value the key had when
\* snapshot(handle) returned (not_found if it was absent), whatever is put,
\* deleted or written in a batch afterwards: the view of S is the store of
\* the moment S was created, it never changes while S is held, and
\* snapshot_get reads it.
C7_SnapshotIsolation ==
  /\ [](last.op = "snapshot_get" /\ Held(last.id) /\ cf_atom_to_name(last.cf) # "none" =>
          last.result = ReadTerm(snaps[last.id].view[cf_atom_to_name(last.cf)][last.key]))
  /\ [][\A s \in SnapIds :
          /\ (~Held(s) /\ Held(s)') => snaps'[s].view = store
          /\ (Held(s) /\ Held(s)') => snaps'[s].view = snaps[s].view]_vars

\* the snapshot returns the old value of a key overwritten after it was taken
C7_Witness ==
  /\ last.op = "snapshot_get" /\ last.cf = ":spo" /\ last.key = <<1, 2>>
  /\ last.result = OkVal(<<8>>)
  /\ store["spo"][<<1, 2>>] = <<7>>
  /\ store["spo"][<<1, 1>>] = NoVal

(***************************************************************************)
(* Specification of the snapshots of a handle that gets closed             *)
(***************************************************************************)
NextSnapClose ==
  \/ close
  \/ put(":spo", <<1, 2>>, <<7>>)
  \/ snapshot
  \/ \E s \in SnapIds, cf \in {":spo", ":bogus"} : snapshot_get(s, cf, <<1, 2>>)
  \/ \E s \in SnapIds : snapshot_prefix_iterator(s, ":spo", <<1>>)
  \/ \E i \in SnapIterIds : snapshot_iterator_next(i)
  \/ \E s \in SnapIds : release_snapshot(s)
  \/ \E s \in SnapIds : drop_snapshot(s)

SpecSnapClose == Init /\ [][NextSnapClose]_vars

\* the snapshot iterators that are free before the step and live after it
Created == {i \in SnapIterIds : snapiters[i].res = "free" /\ snapiters'[i].res = "live"}

\* C8: a snapshot that is held keeps the engine alive; once the handle is
\* closed, snapshot_get on a held snapshot still returns the value of the
\* frozen view and snapshot_prefix_iterator still returns a new iterator
\* over the frozen view; snapshot(handle) on a closed handle returns
\* already_closed and changes nothing (no snapshot, no reference).
C8_SnapshotSurvivesClose ==
  /\ [](\A s \in SnapIds : Held(s) => db_alive)
  /\ [][inner = "None" =>
         /\ \A s \in SnapIds : Held(s) =>
              /\ (last'.op = "snapshot_get" /\ snapshot_get(s, ":spo", <<1, 2>>)) =>
                   last'.result = ReadTerm(snaps[s].view["spo"][<<1, 2>>])
              /\ (last'.op = "snapshot_prefix_iterator"
                     /\ snapshot_prefix_iterator(s, ":spo", <<1>>)) =>
                   /\ last'.result[1] = "ok"
                   /\ Created # {}
                   /\ \A i \in Created :
                        /\ snapiters'[i].some
                        /\ snapiters'[i].iterator.view = snaps[s].view["spo"]
                        /\ last'.result = OkVal(<<"snapshot_iterator", i>>)
         /\ (last'.op = "snapshot" /\ snapshot) =>
              /\ last'.result = AlreadyClosed
              /\ state' = state]_vars

\* after close, a snapshot with a live iterator still reads the value that
\* was overwritten after the snapshot was taken
C8_Witness ==
  /\ inner = "None"
  /\ last.op = "snapshot_get" /\ last.result = OkVal(<<8>>)
  /\ store["spo"][<<1, 2>>] = <<7>>
  /\ \E i \in SnapIterIds : snapiters[i].res = "live" /\ snapiters[i].some
  /\ strong = 2

(***************************************************************************)
(* Specification of the batch calls                                        *)
(***************************************************************************)
\* the entries of this specification: a tagged put, a tagged delete, an
\* untagged delete and a put with an unknown family
BatchEntries ==
  { Tuple(<<Atom(":put"), Atom(":id2str"), Bin(<<1, 2>>), Bin(<<7>>)>>),
    Tuple(<<Atom(":delete"), Atom(":spo"), Bin(<<2, 1>>)>>),
    Tuple(<<Atom(":spo"), Bin(<<2, 1>>)>>),
    Tuple(<<Atom(":put"), Atom(":bogus"), Bin(<<1, 2>>), Bin(<<7>>)>>) }

BatchLists == UNION {[1..n -> BatchEntries] : n \in 0..MaxBatchLen}

BatchOps == {"write_batch", "delete_batch", "mixed_batch"}

NextBatch ==
  \/ \E l \in BatchLists : write_batch(l, TRUE)
  \/ \E l \in BatchLists : delete_batch(l, TRUE)
  \/ \E l \in BatchLists : mixed_batch(l, FALSE)
  \/ get(":spo", <<1, 1>>)
  \/ get(":id2str", <<1, 2>>)

SpecBatch == Init /\ [][NextBatch]_vars

\* every entry of the list is accepted by the call op
AllAccepted(op, operations) ==
  \A n \in 1..Len(operations) : batch_entry(op, operations[n]).ok

\* the store after the effects of all the entries, in their order
AllApplied(op, st, operations) ==
  db_write(st, [n \in 1..Len(operations) |-> batch_entry(op, operations[n]).o])

\* C9: a batch call that returns ok has applied the effect of every one of
\* its operations, in every column family they name; a batch call that
\* returns anything else has left the store as it was; get returns what the
\* store holds.
C9_BatchAllOrNothing ==
  /\ [][(last'.op \in BatchOps /\ batch_call(last'.op, last'.ops)) =>
          IF last'.result = Ok
          THEN /\ AllAccepted(last'.op, last'.ops)
               /\ store' = AllApplied(last'.op, store, last'.ops)
          ELSE store' = store]_vars
  /\ [](last.op = "get" =>
          last.result = ReadTerm(store[cf_atom_to_name(last.cf)][last.key]))

\* a mixed batch has put a key in one family and deleted a key in another
C9_Witness ==
  /\ last.op = "mixed_batch" /\ last.result = Ok /\ Len(last.ops) = 2
  /\ store["id2str"][<<1, 2>>] = <<7>>
  /\ store["spo"][<<2, 1>>] = NoVal
  /\ store["spo"][<<1, 1>>] = <<7>>

(***************************************************************************)
(* Threads: the NIF calls step by step, with the locks they take           *)
(***************************************************************************)
\* the state no thread step changes but through the engine or the Option
SeqFrame ==
  UNCHANGED <<inner, db_ref_live, strong, db_alive, store, iters, snaps, snapiters, cf_opts, wal>>

\* the calls that take the read lock of DbRef.inner
ReadLockOps ==
  {"get", "exists", "put", "delete", "write_batch", "delete_batch", "mixed_batch",
   "prefix_iterator", "snapshot", "flush_wal", "set_options"}

\* the calls that write to the engine
WriteOps == {"put", "delete", "write_batch", "delete_batch", "mixed_batch"}

\* the calls that take the Mutex of a dependent resource
MutexOps ==
  {"iterator_next", "iterator_seek", "iterator_collect", "iterator_close",
   "snapshot_get", "snapshot_prefix_iterator", "snapshot_iterator_next",
   "release_snapshot"}

\* the calls that take the Mutex of an IteratorRef
IteratorOps == {"iterator_next", "iterator_seek", "iterator_collect", "iterator_close"}

\* one more call is started, while the run may start calls
started == calls < MaxCalls /\ calls' = calls + 1

\* the call c returns the term
returned(c, term) ==
  last' = [op |-> c.op, cf |-> c.cf, key |-> c.key, value |-> c.value, id |-> c.id,
           ops |-> c.ops, sync |-> FALSE, result |-> term]

\* thread t leaves the NIF it runs with the term
finish(t, term) ==
  /\ pc' = [pc EXCEPT ![t] = "idle"]
  /\ call' = [call EXCEPT ![t] = NoTCall]
  /\ returned(call[t], term)

\* RwLock::read: granted while no thread holds the write lock
rwlock_read(rd, wr) == wr = NoThread

\* a write lock that is granted while readers hold the lock
rwlock_write_shared(rd, wr) == wr = NoThread

\* RwLock::write: granted while no thread holds the lock at all
rwlock_write(rd, wr) == rd = {} /\ wr = NoThread

\* what the call hands to the engine in one write: the single operation of a
\* put or delete, the WriteBatch built from the entries of a batch call
call_batch(c) ==
  IF c.op = "put"
  THEN [ok |-> TRUE, batch |-> <<PutOp(cf_atom_to_name(c.cf), c.key, c.value)>>, term |-> Ok]
  ELSE IF c.op = "delete"
  THEN [ok |-> TRUE, batch |-> <<DeleteOp(cf_atom_to_name(c.cf), c.key)>>, term |-> Ok]
  ELSE IF c.op \in WriteOps THEN parse_batch(c.op, c.ops, <<>>)
  ELSE [ok |-> TRUE, batch |-> <<>>, term |-> Ok]

\* thread t starts the call c on the handle: resolve the family (the calls
\* that do so first), take the read lock, look at the Option, decode the
\* entries; the call returns at once or goes on with the read lock held
read_lock(t, c) ==
  /\ db_ref_live
  /\ pc[t] = "idle"
  /\ c.op \in ReadLockOps
  /\ started
  /\ IF c.op \in FamilyFirstOps /\ cf_atom_to_name(c.cf) = "none"
     THEN returned(c, InvalidCf(c.cf)) /\ UNCHANGED <<pc, call, readers>>
     ELSE /\ rwlock_read(readers, writer)
          /\ IF inner = "None"
             THEN returned(c, AlreadyClosed) /\ UNCHANGED <<pc, call, readers>>
             ELSE LET p == call_batch(c) IN
                  IF ~p.ok
                  THEN returned(c, p.term) /\ UNCHANGED <<pc, call, readers>>
                  ELSE /\ readers' = readers \cup {t}
                       /\ pc' = [pc EXCEPT ![t] = "locked"]
                       /\ call' = [call EXCEPT ![t] = [c EXCEPT !.batch = p.batch]]
                       /\ UNCHANGED last
  /\ UNCHANGED <<writer, mutex>>
  /\ SeqFrame

\* the terms of the engine reads made under the read lock
engine_read_terms(c, st, alive) ==
  IF ~alive THEN UBOutcomes
  ELSE IF c.op = "get" THEN {get_term("Some", st, c.cf, c.key)}
  ELSE IF c.op = "exists" THEN {exists_term("Some", st, c.cf, c.key)}
  ELSE flush_wal_terms("Some")

\* get, exists, flush_wal: the engine call, then the guard is dropped
engine_read(t) ==
  /\ pc[t] = "locked"
  /\ call[t].op \in {"get", "exists", "flush_wal"}
  /\ \E r \in engine_read_terms(call[t], store, db_alive) : finish(t, r)
  /\ readers' = readers \ {t}
  /\ UNCHANGED <<writer, mutex, calls, wal>>
  /\ SeqFrame

\* an engine that applies the operations of a WriteBatch one write at a time
db_write_opt_each(st, batch) ==
  IF batch = <<>> THEN [store |-> st, rest |-> <<>>]
  ELSE [store |-> batch_op(st, Head(batch)), rest |-> Tail(batch)]

\* DB::write_opt, put_cf_opt, delete_cf_opt: one engine write applies the
\* whole WriteBatch; rest is what is left to apply
db_write_opt(st, batch) == [store |-> db_write(st, batch), rest |-> <<>>]

\* put, delete and the batch calls: the engine write, then the guard is dropped
engine_write(t) ==
  LET c == call[t]
      w == db_write_opt(store, c.batch)
  IN
  /\ pc[t] = "locked"
  /\ c.op \in WriteOps
  /\ \/ /\ store' = w.store
        /\ wal' = wal_write(wal, w.store, DefaultWriteOptions)
        /\ IF w.rest = <<>>
           THEN finish(t, Ok) /\ readers' = readers \ {t}
           ELSE /\ call' = [call EXCEPT ![t].batch = w.rest]
                /\ UNCHANGED <<pc, last, readers>>
     \/ /\ c.op \in BatchOps
        /\ finish(t, BatchFailed)
        /\ readers' = readers \ {t}
        /\ UNCHANGED <<store, wal>>
  /\ UNCHANGED <<writer, mutex, calls>>
  /\ UNCHANGED <<inner, db_ref_live, strong, db_alive, iters, snaps, snapiters, cf_opts>>

\* prefix_iterator under the read lock: clone the Arc, create the cursor
engine_prefix_iterator(t) ==
  LET c == call[t]
      cf_name == cf_atom_to_name(c.cf)
  IN
  /\ pc[t] = "locked"
  /\ c.op = "prefix_iterator"
  /\ FreeIterIds # {}
  /\ LET i == CHOOSE j \in FreeIterIds : \A m \in FreeIterIds : j <= m
         read_opts == select_read_opts(cf_name, c.key)
     IN \E rest \in db_iterator_cf_opt(store[cf_name], cf_name, read_opts, c.key) :
          /\ iters' = [iters EXCEPT ![i] =
               IterRec("live", TRUE, Cursor(store[cf_name], rest, read_opts), c.key, cf_name)]
          /\ finish(t, OkVal(<<"iterator", i>>))
  /\ strong' = prefix_iterator_arc(strong)
  /\ readers' = readers \ {t}
  /\ UNCHANGED <<writer, mutex, calls, wal>>
  /\ UNCHANGED <<inner, db_ref_live, db_alive, store, snaps, snapiters, cf_opts>>

\* snapshot under the read lock: clone the Arc, take the engine snapshot
engine_snapshot(t) ==
  /\ pc[t] = "locked"
  /\ call[t].op = "snapshot"
  /\ FreeSnapIds # {}
  /\ LET s == CHOOSE j \in FreeSnapIds : \A m \in FreeSnapIds : j <= m IN
       /\ snaps' = [snaps EXCEPT ![s] = SnapRec("live", TRUE, db_snapshot(store))]
       /\ finish(t, OkVal(<<"snapshot", s>>))
  /\ strong' = snapshot_arc(strong)
  /\ readers' = readers \ {t}
  /\ UNCHANGED <<writer, mutex, calls, wal>>
  /\ UNCHANGED <<inner, db_ref_live, db_alive, store, iters, snapiters, cf_opts>>

\* set_options under the read lock; the option list is in the field id,
\* f is the position of the family the engine refuses the options on
engine_set_options(t, f) ==
  /\ pc[t] = "locked"
  /\ call[t].op = "set_options"
  /\ f \in 0..Len(CF_NAMES)
  /\ cf_opts' = set_options_opts(cf_opts, call[t].id, f)
  /\ finish(t, set_options_term(f))
  /\ readers' = readers \ {t}
  /\ UNCHANGED <<writer, mutex, calls, wal>>
  /\ UNCHANGED <<inner, db_ref_live, strong, db_alive, store, iters, snaps, snapiters>>

\* a close that waits until no thread holds the Mutex of a dependent
close_waits_for_cursors(mx) == {r \in Resources : mx[r] # NoThread}

\* the dependents close waits for: it locks DbRef.inner and nothing else
close_waits_for(mx) == {}

CloseCall == TCall("close", "", <<>>, <<>>, 0, <<>>)

\* thread t starts close: db_ref.inner.write()
write_lock(t) ==
  /\ db_ref_live
  /\ pc[t] = "idle"
  /\ started
  /\ rwlock_write(readers, writer)
  /\ close_waits_for(mutex) = {}
  /\ writer' = t
  /\ pc' = [pc EXCEPT ![t] = "closing"]
  /\ call' = [call EXCEPT ![t] = CloseCall]
  /\ UNCHANGED <<last, readers, mutex>>
  /\ SeqFrame

\* close: guard.take(), drop of the handle's Arc, then the guard is dropped
close_take(t) ==
  /\ pc[t] = "closing"
  /\ IF inner = "None"
     THEN /\ finish(t, AlreadyClosed)
          /\ UNCHANGED <<inner, strong, db_alive>>
     ELSE /\ inner' = close_inner(inner)
          /\ strong' = ArcDrop(strong)
          /\ db_alive' = AliveAfter(db_alive, strong')
          /\ finish(t, Ok)
  /\ writer' = NoThread
  /\ UNCHANGED <<readers, mutex, calls, wal>>
  /\ UNCHANGED <<db_ref_live, store, iters, snaps, snapiters, cf_opts>>

\* the dependent resource a call works on
resource_of(c) ==
  IF c.op \in IteratorOps THEN <<"iterator", c.id>>
  ELSE IF c.op = "snapshot_iterator_next" THEN <<"snapshot_iterator", c.id>>
  ELSE <<"snapshot", c.id>>

\* the resource term handed to the call refers to a resource there is
resource_live(c) ==
  IF c.op \in IteratorOps THEN c.id \in IterIds /\ iters[c.id].res = "live"
  ELSE IF c.op = "snapshot_iterator_next"
  THEN c.id \in SnapIterIds /\ snapiters[c.id].res = "live"
  ELSE c.id \in SnapIds /\ snaps[c.id].res = "live"

\* a Mutex that is granted while another thread holds it
mutex_free_always(mx, r) == TRUE

\* Mutex::lock: granted while no thread holds the Mutex of the resource
mutex_free(mx, r) == mx[r] = NoThread

\* thread t starts the call c on a dependent: resolve the family
\* (snapshot_get and snapshot_prefix_iterator), then lock the Mutex
mutex_lock(t, c) ==
  /\ pc[t] = "idle"
  /\ c.op \in MutexOps
  /\ resource_live(c)
  /\ started
  /\ IF c.op \in {"snapshot_get", "snapshot_prefix_iterator"} /\ cf_atom_to_name(c.cf) = "none"
     THEN returned(c, InvalidCf(c.cf)) /\ UNCHANGED <<pc, call, mutex>>
     ELSE /\ mutex_free(mutex, resource_of(c))
          /\ mutex' = [mutex EXCEPT ![resource_of(c)] = t]
          /\ pc' = [pc EXCEPT ![t] = "cursor"]
          /\ call' = [call EXCEPT ![t] = c]
          /\ UNCHANGED last
  /\ UNCHANGED <<readers, writer>>
  /\ SeqFrame

\* a guard that is forgotten: the Mutex stays locked after the return
mutex_unlock_kept(t) == UNCHANGED mutex

\* the Mutex guard of the thread's resource is dropped
mutex_unlock(t) == mutex' = [mutex EXCEPT ![resource_of(call[t])] = NoThread]

\* iterator_next with the cursor locked
iterator_next_locked(t) ==
  LET i == call[t].id IN
  /\ pc[t] = "cursor"
  /\ call[t].op = "iterator_next"
  /\ \E r \in iter_next_terms(iters[i], db_alive) : finish(t, r)
  /\ iters' = [iters EXCEPT ![i] = iter_next_rec(iters[i], db_alive)]
  /\ mutex_unlock(t)
  /\ UNCHANGED <<readers, writer, calls, wal>>
  /\ UNCHANGED <<inner, db_ref_live, strong, db_alive, store, snaps, snapiters, cf_opts>>

\* snapshot_get with the snapshot locked
snapshot_get_locked(t) ==
  LET c == call[t] IN
  /\ pc[t] = "cursor"
  /\ c.op = "snapshot_get"
  /\ \E r \in snapshot_get_terms(snaps[c.id], db_alive, store, c.cf, c.key) : finish(t, r)
  /\ mutex_unlock(t)
  /\ UNCHANGED <<readers, writer, calls, wal>>
  /\ SeqFrame

\* snapshot_prefix_iterator with the snapshot locked
snapshot_prefix_iterator_locked(t) ==
  LET c == call[t]
      cf_name == cf_atom_to_name(c.cf)
  IN
  /\ pc[t] = "cursor"
  /\ c.op = "snapshot_prefix_iterator"
  /\ IF ~snaps[c.id].some
     THEN finish(t, SnapshotReleased) /\ UNCHANGED <<strong, snapiters>>
     ELSE IF ~db_alive
     THEN (\E r \in UBOutcomes : finish(t, r)) /\ UNCHANGED <<strong, snapiters>>
     ELSE /\ FreeSnapIterIds # {}
          /\ LET i == CHOOSE j \in FreeSnapIterIds : \A m \in FreeSnapIterIds : j <= m
                 read_opts == select_read_opts(cf_name, c.key)
                 view == snapshot_iter_view(snaps[c.id], store, cf_name)
             IN \E rest \in db_iterator_cf_opt(view, cf_name, read_opts, c.key) :
                  /\ snapiters' = [snapiters EXCEPT ![i] =
                       IterRec("live", TRUE, Cursor(view, rest, read_opts), c.key, cf_name)]
                  /\ finish(t, OkVal(<<"snapshot_iterator", i>>))
          /\ strong' = snapshot_prefix_iterator_arc(strong)
  /\ mutex_unlock(t)
  /\ UNCHANGED <<readers, writer, calls, wal>>
  /\ UNCHANGED <<inner, db_ref_live, db_alive, store, iters, snaps, cf_opts>>

\* snapshot_iterator_next with the cursor locked
snapshot_iterator_next_locked(t) ==
  LET i == call[t].id IN
  /\ pc[t] = "cursor"
  /\ call[t].op = "snapshot_iterator_next"
  /\ \E r \in iter_next_terms(snapiters[i], db_alive) : finish(t, r)
  /\ snapiters' = [snapiters EXCEPT ![i] = iter_next_rec(snapiters[i], db_alive)]
  /\ mutex_unlock(t)
  /\ UNCHANGED <<readers, writer, calls, wal>>
  /\ UNCHANGED <<inner, db_ref_live, strong, db_alive, store, iters, snaps, cf_opts>>

\* the frame of a step that works on an iterator only
CursorFrame ==
  /\ UNCHANGED <<readers, writer, calls, wal>>
  /\ UNCHANGED <<inner, db_ref_live, strong, db_alive, store, snaps, snapiters, cf_opts>>

\* iterator_next with the cursor locked, first half: the Option is looked
\* at and DBIterator::next reads the entry the cursor is on; the term is
\* kept in the field value of the thread's call
iterator_next_read(t) ==
  LET i == call[t].id IN
  /\ pc[t] = "cursor"
  /\ call[t].op = "iterator_next"
  /\ IF ~iters[i].some
     THEN finish(t, IteratorClosed) /\ mutex_unlock(t)
     ELSE /\ \E r \in iter_next_terms(iters[i], db_alive) :
               call' = [call EXCEPT ![t].value = r]
          /\ pc' = [pc EXCEPT ![t] = "read"]
          /\ UNCHANGED <<last, mutex>>
  /\ UNCHANGED iters
  /\ CursorFrame

\* iterator_next, second half: the cursor moves past the entry read, the
\* term is returned and the guard is dropped
iterator_next_return(t) ==
  LET i == call[t].id IN
  /\ pc[t] = "read"
  /\ iters' = [iters EXCEPT ![i] = iter_next_rec(iters[i], db_alive)]
  /\ finish(t, call[t].value)
  /\ mutex_unlock(t)
  /\ CursorFrame

\* a seek that takes the cursor out of the Option while it positions it
seek_pending_rec_taken(it) == [it EXCEPT !.some = FALSE, !.iterator = NoCursor]

\* the IteratorRef while iterator_seek creates the new engine iterator:
\* the Option and the cursor in it are not touched
seek_pending_rec(it) == it

\* iterator_seek with the cursor locked, first half: the Option is looked
\* at and the new engine iterator is created at the target; it is kept in
\* the field value of the thread's call
iterator_seek_create(t) ==
  LET i == call[t].id IN
  /\ pc[t] = "cursor"
  /\ call[t].op = "iterator_seek"
  /\ IF ~iters[i].some
     THEN finish(t, IteratorClosed) /\ mutex_unlock(t) /\ UNCHANGED iters
     ELSE /\ \E c \in seek_cursors(store, iters[i].cf_name, call[t].key) :
               call' = [call EXCEPT ![t].value = c]
          /\ iters' = [iters EXCEPT ![i] = seek_pending_rec(iters[i])]
          /\ pc' = [pc EXCEPT ![t] = "seek"]
          /\ UNCHANGED <<last, mutex>>
  /\ CursorFrame

\* iterator_seek, second half: *iterator = static_iterator, then ok is
\* returned and the guard is dropped
iterator_seek_replace(t) ==
  LET i == call[t].id IN
  /\ pc[t] = "seek"
  /\ iters' = [iters EXCEPT ![i].iterator = call[t].value]
  /\ finish(t, Ok)
  /\ mutex_unlock(t)
  /\ CursorFrame

\* iterator_collect with the cursor locked
iterator_collect_locked(t) ==
  LET i == call[t].id IN
  /\ pc[t] = "cursor"
  /\ call[t].op = "iterator_collect"
  /\ \E r \in iter_collect_terms(iters[i], db_alive) : finish(t, r)
  /\ iters' = [iters EXCEPT ![i] = iter_collect_rec(iters[i], db_alive)]
  /\ mutex_unlock(t)
  /\ CursorFrame

\* iterator_close with the cursor locked
iterator_close_locked(t) ==
  LET i == call[t].id IN
  /\ pc[t] = "cursor"
  /\ call[t].op = "iterator_close"
  /\ finish(t, iter_close_term(iters[i]))
  /\ iters' = [iters EXCEPT ![i] = iter_close_rec(iters[i])]
  /\ mutex_unlock(t)
  /\ CursorFrame

(***************************************************************************)
(* Specification of close racing with the calls on the handle              *)
(***************************************************************************)
CloseCalls ==
  { TCall("get", ":spo", <<1, 1>>, <<>>, 0, <<>>),
    TCall("get", ":bogus", <<1, 1>>, <<>>, 0, <<>>),
    TCall("exists", ":spo", <<1, 1>>, <<>>, 0, <<>>),
    TCall("put", ":spo", <<1, 1>>, <<7>>, 0, <<>>),
    TCall("delete", ":spo", <<1, 1>>, <<>>, 0, <<>>),
    TCall("mixed_batch", "", <<>>, <<>>, 0, SnapBatch),
    TCall("prefix_iterator", ":spo", <<1>>, <<>>, 0, <<>>),
    TCall("snapshot", "", <<>>, <<>>, 0, <<>>),
    TCall("flush_wal", "", <<>>, <<>>, 0, <<>>),
    TCall("set_options", "", <<>>, <<>>, 1, <<>>) }

NextClose ==
  \/ \E t \in Threads, c \in CloseCalls : read_lock(t, c)
  \/ \E t \in Threads : engine_read(t)
  \/ \E t \in Threads : engine_write(t)
  \/ \E t \in Threads : engine_prefix_iterator(t)
  \/ \E t \in Threads : engine_snapshot(t)
  \/ \E t \in Threads : engine_set_options(t, 0)
  \/ \E t \in Threads : write_lock(t)
  \/ \E t \in Threads : close_take(t)

SpecClose == Init /\ [][NextClose]_vars

\* the threads that hold the read lock are those inside a call on the handle
Locked == {t \in Threads : pc[t] = "locked"}

\* the engine step of the call thread t runs under the read lock
engine_step(t) ==
  \/ engine_read(t)
  \/ engine_write(t)
  \/ engine_prefix_iterator(t)
  \/ engine_snapshot(t)
  \/ engine_set_options(t, 0)

DepsCalls ==
  {TCall("iterator_next", "", <<>>, <<>>, i, <<>>) : i \in IterIds}
    \cup {TCall("snapshot_get", ":spo", <<1, 1>>, <<>>, n, <<>>) : n \in SnapIds}
    \cup {TCall("snapshot_prefix_iterator", ":spo", <<1>>, <<>>, n, <<>>) : n \in SnapIds}
    \cup {TCall("snapshot_iterator_next", "", <<>>, <<>>, i, <<>>) : i \in SnapIterIds}

NextCloseDeps ==
  \/ \E t \in Threads : read_lock(t, TCall("prefix_iterator", ":spo", <<1>>, <<>>, 0, <<>>))
  \/ \E t \in Threads : read_lock(t, TCall("snapshot", "", <<>>, <<>>, 0, <<>>))
  \/ \E t \in Threads : engine_prefix_iterator(t)
  \/ \E t \in Threads : engine_snapshot(t)
  \/ \E t \in Threads, c \in DepsCalls : mutex_lock(t, c)
  \/ \E t \in Threads : iterator_next_locked(t)
  \/ \E t \in Threads : snapshot_get_locked(t)
  \/ \E t \in Threads : snapshot_prefix_iterator_locked(t)
  \/ \E t \in Threads : snapshot_iterator_next_locked(t)
  \/ \E t \in Threads : write_lock(t)
  \/ \E t \in Threads : close_take(t)

SpecCloseDeps == Init /\ [][NextCloseDeps]_vars

\* C6: whenever the lock of DbRef.inner is free, a thread can start close
\* and take the write lock, whichever Mutex of an iterator, snapshot or
\* snapshot iterator other threads hold and whichever dependents are open;
\* holding the write lock it can complete; and close touches no Mutex and no
\* dependent.
C6_CloseNeverWaits ==
  /\ [](\A t \in Threads :
          /\ (pc[t] = "idle" /\ calls < MaxCalls /\ readers = {} /\ writer = NoThread)
               => ENABLED write_lock(t)
          /\ pc[t] = "closing" => ENABLED close_take(t))
  /\ [][\A t \in Threads : (write_lock(t) \/ close_take(t)) =>
          UNCHANGED <<mutex, iters, snaps, snapiters>>]_vars

\* close holds the write lock of the open handle and can complete while
\* another thread is inside iterator_next with the cursor locked
C6_Witness ==
  \E t, u \in Threads :
    /\ pc[t] = "closing" /\ inner = "Some"
    /\ pc[u] = "cursor" /\ call[u].op = "iterator_next"
    /\ mutex[<<"iterator", call[u].id>>] = u
    /\ ENABLED close_take(t)

(***************************************************************************)
(* Specification of concurrent writes and reads                            *)
(***************************************************************************)
\* a batch in two families: a put and a delete
TwoFamilies ==
  << Tuple(<<Atom(":put"), Atom(":id2str"), Bin(<<1, 2>>), Bin(<<7>>)>>),
     Tuple(<<Atom(":delete"), Atom(":spo"), Bin(<<1, 1>>)>>) >>

WritesCalls ==
  { TCall("get", ":spo", <<1, 1>>, <<>>, 0, <<>>),
    TCall("exists", ":id2str", <<1, 2>>, <<>>, 0, <<>>),
    TCall("put", ":spo", <<1, 1>>, <<8>>, 0, <<>>),
    TCall("mixed_batch", "", <<>>, <<>>, 0, TwoFamilies),
    TCall("prefix_iterator", ":spo", <<1>>, <<>>, 0, <<>>),
    TCall("snapshot", "", <<>>, <<>>, 0, <<>>) }

NextWrites ==
  \/ \E t \in Threads, c \in WritesCalls : read_lock(t, c)
  \/ \E t \in Threads : engine_read(t)
  \/ \E t \in Threads : engine_write(t)
  \/ \E t \in Threads : engine_prefix_iterator(t)
  \/ \E t \in Threads : engine_snapshot(t)

SpecWrites == Init /\ [][NextWrites]_vars

\* the dependents that are free before the step and live after it
CreatedIters == {i \in IterIds : iters[i].res = "free" /\ iters'[i].res = "live"}
CreatedSnaps == {n \in SnapIds : snaps[n].res = "free" /\ snaps'[n].res = "live"}

\* C10: the store changes only in steps that apply the whole write of one
\* call in flight (so the writes take effect in a serial order and a batch
\* is never partly applied), and get, exists, the creation of an iterator
\* and the creation of a snapshot read the store of one such moment.
C10_WritesSerial ==
  [][/\ store' # store =>
          \E t \in Locked :
            /\ call[t].op \in WriteOps
            /\ pc'[t] = "idle" /\ last'.result = Ok
            /\ store' = db_write(store, call_batch(call[t]).batch)
     /\ \A t \in Locked : pc'[t] = "idle" =>
          /\ call[t].op = "get" =>
               last'.result = ReadTerm(store[cf_atom_to_name(call[t].cf)][call[t].key])
          /\ call[t].op = "exists" =>
               last'.result = OkVal(<<store[cf_atom_to_name(call[t].cf)][call[t].key] # NoVal>>)
          /\ call[t].op = "prefix_iterator" =>
               \A i \in CreatedIters : iters'[i].iterator.view = store[iters'[i].cf_name]
          /\ call[t].op = "snapshot" =>
               \A n \in CreatedSnaps : snaps'[n].view = store]_vars

\* a batch and a get hold the read lock at the same time, after a put
C10_Witness ==
  \E t, u \in Threads :
    /\ pc[t] = "locked" /\ call[t].op = "mixed_batch"
    /\ pc[u] = "locked" /\ call[u].op = "get"
    /\ last.op = "put" /\ last.result = Ok

(***************************************************************************)
(* Specification of the batch calls on lists with malformed entries        *)
(***************************************************************************)
\* the entries handed to each call: one it accepts, one of a wrong arity,
\* one with an unknown tag (the calls that know tags), one with an unknown
\* family
MalformedEntries(op) ==
  IF op = "write_batch"
  THEN { Tuple(<<Atom(":put"), Atom(":spo"), Bin(<<1, 2>>), Bin(<<7>>)>>),
         Tuple(<<Atom(":spo"), Bin(<<1, 1>>)>>),
         Tuple(<<Atom(":merge"), Atom(":spo"), Bin(<<1, 2>>), Bin(<<7>>)>>),
         Tuple(<<Atom(":bogus"), Bin(<<1, 1>>), Bin(<<8>>)>>) }
  ELSE IF op = "delete_batch"
  THEN { Tuple(<<Atom(":spo"), Bin(<<1, 1>>)>>),
         Tuple(<<Atom(":delete"), Atom(":spo"), Bin(<<1, 1>>)>>),
         Tuple(<<>>),
         Tuple(<<Atom(":bogus"), Bin(<<1, 1>>)>>) }
  ELSE { Tuple(<<Atom(":delete"), Atom(":spo"), Bin(<<1, 1>>)>>),
         Tuple(<<Atom(":put"), Atom(":spo"), Bin(<<1, 2>>)>>),
         Tuple(<<Atom(":spo"), Bin(<<1, 2>>), Bin(<<7>>)>>),
         Tuple(<<Atom(":put"), Atom(":bogus"), Bin(<<1, 2>>), Bin(<<7>>)>>) }

MalformedLists(op) == UNION {[1..n -> MalformedEntries(op)] : n \in 0..MaxBatchLen}

NextMalformed ==
  \/ \E l \in MalformedLists("write_batch") : write_batch(l, FALSE)
  \/ \E l \in MalformedLists("delete_batch") : delete_batch(l, FALSE)
  \/ \E l \in MalformedLists("mixed_batch") : mixed_batch(l, TRUE)

SpecMalformed == Init /\ [][NextMalformed]_vars

\* the fields of the tuple from position n on are a family atom and binaries
TypedFrom(tuple, n) ==
  /\ is_atom(tuple[n])
  /\ \A m \in (n + 1)..Len(tuple) : is_binary(tuple[m])

\* the family atom at position n of the tuple is not a column family
UnknownCf(tuple, n) == cf_atom_to_name(tuple[n][2]) = "none"

\* what is wrong with an entry handed to the call op: "arity", "tag", "cf",
\* "type" (a field of the wrong type), or "none"
Kind(op, item) ==
  IF ~is_tuple(item) THEN "type"
  ELSE LET tuple == item[2] IN
    IF op = "write_batch" THEN
      IF Len(tuple) = 3 THEN
        IF ~TypedFrom(tuple, 1) THEN "type"
        ELSE IF UnknownCf(tuple, 1) THEN "cf" ELSE "none"
      ELSE IF Len(tuple) = 4 THEN
        IF ~(is_atom(tuple[1]) /\ TypedFrom(tuple, 2)) THEN "type"
        ELSE IF tuple[1][2] # ":put" THEN "tag"
        ELSE IF UnknownCf(tuple, 2) THEN "cf" ELSE "none"
      ELSE "arity"
    ELSE IF op = "delete_batch" THEN
      IF Len(tuple) # 2 THEN "arity"
      ELSE IF ~TypedFrom(tuple, 1) THEN "type"
      ELSE IF UnknownCf(tuple, 1) THEN "cf" ELSE "none"
    ELSE
      IF Len(tuple) = 0 THEN "arity"
      ELSE IF ~is_atom(tuple[1]) THEN "type"
      ELSE IF tuple[1][2] \notin {":put", ":delete"} THEN "tag"
      ELSE IF Len(tuple) # (IF tuple[1][2] = ":put" THEN 4 ELSE 3) THEN "arity"
      ELSE IF ~TypedFrom(tuple, 2) THEN "type"
      ELSE IF UnknownCf(tuple, 2) THEN "cf" ELSE "none"

\* the position of the first entry something is wrong with, 0 if there is none
FirstBad(op, operations) ==
  LET bad == {n \in 1..Len(operations) : Kind(op, operations[n]) # "none"} IN
  IF bad = {} THEN 0 ELSE CHOOSE n \in bad : \A m \in bad : n <= m

\* the list has a malformed entry, and it is the first thing wrong with it
Malformed(op, operations) ==
  /\ FirstBad(op, operations) # 0
  /\ Kind(op, operations[FirstBad(op, operations)]) \in {"arity", "tag", "cf"}

\* C11: a batch call on an open handle whose list has a malformed entry
\* (wrong arity, unknown tag, unknown family) at any position returns an
\* error and leaves the store as it was, the entries before the bad one not
\* applied either.
C11_MalformedAborts ==
  [][(last'.op \in BatchOps /\ batch_call(last'.op, last'.ops)
        /\ Malformed(last'.op, last'.ops)) =>
       /\ last'.result[1] = "error"
       /\ store' = store]_vars

\* a write_batch whose second entry is malformed has not applied the first
C11_Witness ==
  /\ last.op = "write_batch" /\ Len(last.ops) = 2
  /\ FirstBad("write_batch", last.ops) = 2 /\ Malformed("write_batch", last.ops)
  /\ last.result = InvalidOperation
  /\ store["spo"][<<1, 2>>] # <<7>>

\* the bad entry of a malformed list
BadEntry(op, operations) == operations[FirstBad(op, operations)]

\* the term the call op returns for the list on an open handle when it
\* does not accept an entry
RejectTerm(op, operations) == parse_batch(op, operations, <<>>).term

\* the position of the family atom in an entry of the call op
CfPos(op, tuple) ==
  IF op = "delete_batch" \/ (op = "write_batch" /\ Len(tuple) = 3) THEN 1 ELSE 2

\* the error for the bad entry: the bare invalid_operation for a wrong
\* arity, invalid_operation with the tag for an unknown tag, invalid_cf with
\* the family atom for an unknown family
KindTerm(op, item) ==
  LET tuple == item[2] IN
  IF Kind(op, item) = "arity" THEN <<"error", <<"invalid_operation">>>>
  ELSE IF Kind(op, item) = "tag" THEN <<"error", <<"invalid_operation", tuple[1][2]>>>>
  ELSE <<"error", <<"invalid_cf", tuple[CfPos(op, tuple)][2]>>>>

ScanPrefixes == {<<0>>, <<1>>, Id8(1)}

NextScan ==
  \/ \E k \in LongKeys : put(":spo", k, <<7>>)
  \/ \E p \in ScanPrefixes : prefix_iterator(":spo", p)
  \/ prefix_iterator(":id2str", <<1>>)
  \/ \E i \in IterIds : iterator_next(i)

SpecScan == Init /\ [][NextScan]_vars

\* what iterator_next called again and again on the iterator returns before
\* the first end-of-stream
RECURSIVE Scan(_)
Scan(it) ==
  IF next_term(it) = IteratorEnd THEN <<>>
  ELSE <<next_term(it)>> \o Scan([it EXCEPT !.iterator = next_cursor(it)])

\* the entries of a family's contents whose key starts with the prefix, in
\* ascending byte order
Matching(view, prefix) ==
  LET keys == SortedKeys({k \in Keys : view[k] # NoVal /\ starts_with(k, prefix)}) IN
  [n \in 1..Len(keys) |-> <<"ok", keys[n], view[keys[n]]>>]

\* the iterators that are free before the step and live after it
NewIters == {i \in IterIds : iters[i].res = "free" /\ iters'[i].res = "live"}

\* C13: the iterator prefix_iterator(cf, p) returns yields, by iterator_next
\* until end-of-stream, exactly the entries of the family whose key starts
\* with p, each once, in ascending byte order, whatever the order the keys
\* were put in; each iterator_next returns the first of the entries still
\* to come and leaves the others.
C13_ScanIsPrefixRange ==
  [][\A i \in IterIds :
       /\ i \in NewIters =>
            Scan(iters'[i]) = Matching(store[iters'[i].cf_name], iters'[i].prefix)
       /\ (iters[i].res = "live" /\ last'.op = "iterator_next" /\ iterator_next(i)) =>
            /\ last'.result = IF Scan(iters[i]) = <<>> THEN IteratorEnd ELSE Head(Scan(iters[i]))
            /\ Scan(iters[i]) # <<>> => Scan(iters'[i]) = Tail(Scan(iters[i]))]_vars

\* the scan of an identifier prefix has delivered its second and last key
\* while a key of the next identifier is stored
C13_Witness ==
  \E i \in IterIds :
    /\ iters[i].res = "live" /\ iters[i].prefix = Id8(1)
    /\ last.op = "iterator_next" /\ last.id = i
    /\ last.result = <<"ok", Id8(1) \o <<2>>, <<7>>>>
    /\ store["spo"][Id8(2) \o <<1>>] # NoVal
    /\ Scan(iters[i]) = <<>>

(***************************************************************************)
(* Specification of the seeks: an iterator repositioned, then read         *)
(***************************************************************************)
\* the targets of the seeks: shorter than an identifier, inside the keys of
\* the first identifier, the second identifier
ScanTargets == {<<0>>, Id8(1) \o <<2>>, Id8(2)}

NextSeek ==
  \/ \E k \in {Id8(1) \o <<1>>, Id8(2) \o <<1>>} : put(":pos", k, <<7>>)
  \/ \E p \in {<<0>>, Id8(1)} : prefix_iterator(":pos", p)
  \/ \E i \in IterIds, t \in ScanTargets : iterator_seek(i, t)
  \/ \E i \in IterIds : iterator_next(i)

SpecSeek == Init /\ [][NextSeek]_vars

\* the step is an iterator_next on iterator i that directly follows an
\* iterator_seek on it that returned ok (last.key is the target)
SeekThenNext(i) ==
  /\ iters[i].res = "live"
  /\ last.op = "iterator_seek" /\ last.id = i /\ last.result = Ok
  /\ last'.op = "iterator_next" /\ iterator_next(i)

\* the entry of the least key >= target of the family if that key starts
\* with the prefix, end-of-stream otherwise
LeastFrom(view, target, prefix) ==
  LET ge == {k \in Keys : view[k] # NoVal /\ BytesLeq(target, k)} IN
  IF ge = {} THEN IteratorEnd
  ELSE IF ~starts_with(MinKey(ge), prefix) THEN IteratorEnd
  ELSE <<"ok", MinKey(ge), view[MinKey(ge)]>>

\* C14: for an open iterator with prefix p and a target t that starts with
\* p, the iterator_next that follows an iterator_seek(t) returning ok
\* returns the least key k >= t of the family with its value if k starts
\* with p, and end-of-stream if there is no such key or k does not start
\* with p.
C14_Original ==
  [][\A i \in IterIds :
       (SeekThenNext(i) /\ starts_with(last.key, iters[i].prefix)) =>
         last'.result = LeastFrom(store[iters[i].cf_name], last.key, iters[i].prefix)]_vars

\* C15 as stated: for an open iterator with prefix p and a target t that
\* does not start with p, below or above the keys with prefix p, the
\* iterator_next that follows an iterator_seek(t) returning ok reports
\* end-of-stream, whatever keys the family holds.
C15_Original ==
  [][\A i \in IterIds :
       (SeekThenNext(i) /\ ~starts_with(last.key, iters[i].prefix)) =>
         last'.result = IteratorEnd]_vars

\* C15: for an open iterator with prefix p and a target t that does not
\* start with p and sorts above p, hence above every key with prefix p,
\* the iterator_next that follows an iterator_seek(t) returning ok reports
\* end-of-stream, whatever keys the family holds.
C15_SeekAboveEnds ==
  [][\A i \in IterIds :
       (/\ SeekThenNext(i)
        /\ ~starts_with(last.key, iters[i].prefix)
        /\ BytesLess(iters[i].prefix, last.key)) =>
         last'.result = IteratorEnd]_vars

\* an iterator of the first identifier was sought to the second identifier,
\* of which a key is stored, and the next read reported end-of-stream
C15_Witness ==
  \E i \in IterIds :
    /\ iters[i].res = "live" /\ iters[i].prefix = Id8(1)
    /\ last.op = "iterator_next" /\ last.id = i /\ last.result = IteratorEnd
    /\ store["pos"][Id8(2) \o <<1>>] # NoVal
    /\ store["pos"][Id8(1) \o <<1>>] # NoVal
    /\ iters[i].iterator.rest = <<>>
    /\ iters[i].iterator.read_opts = DefaultReadOpts
    /\ iters[i].iterator.view = store["pos"]

(***************************************************************************)
(* Closed iterators (SpecIter)                                             *)
(***************************************************************************)
\* the step is a call of one of the four cursor operations on iterator i
CursorCall(i) ==
  \/ iterator_next(i)
  \/ \E t \in SeekTargets : iterator_seek(i, t)
  \/ iterator_collect(i)
  \/ iterator_close(i)

\* C16: once iterator_close has returned ok on an iterator, every later
\* iterator_next, iterator_seek, iterator_collect and iterator_close on it
\* returns iterator_closed and leaves it closed, the handle being open or
\* closed; iterator_seek never reopens it.
C16_ClosedStaysClosed ==
  [][\A i \in IterIds :
       /\ (iterator_close(i) /\ last'.result = Ok) => ~iters'[i].some
       /\ (iters[i].res = "live" /\ ~iters[i].some /\ CursorCall(i)) =>
            /\ last'.result = IteratorClosed
            /\ iters'[i] = iters[i]]_vars

\* a seek on a closed iterator, the handle closed too, was refused
C16_Witness ==
  \E i \in IterIds :
    /\ iters[i].res = "live" /\ ~iters[i].some
    /\ inner = "None"
    /\ last.op = "iterator_seek" /\ last.id = i /\ last.result = IteratorClosed

(***************************************************************************)
(* Specification of the released snapshots                                 *)
(***************************************************************************)
NextRelease ==
  \/ close
  \/ put(":spo", <<1, 2>>, <<7>>)
  \/ snapshot
  \/ \E s \in SnapIds, cf \in {":spo", ":bogus"} : snapshot_get(s, cf, <<1, 2>>)
  \/ \E s \in SnapIds, cf \in {":spo", ":bogus"} : snapshot_prefix_iterator(s, cf, <<1>>)
  \/ \E i \in SnapIterIds : snapshot_iterator_next(i)
  \/ \E s \in SnapIds : release_snapshot(s)

SpecRelease == Init /\ [][NextRelease]_vars

\* the snapshot s has been created and released
Released(s) == snaps[s].res = "live" /\ ~snaps[s].some

\* C17: the first release_snapshot on a snapshot returns ok; every later
\* one returns snapshot_released and changes nothing; after the release
\* every snapshot_get and snapshot_prefix_iterator on it with a valid
\* column family returns snapshot_released.
C17_ReleaseOnce ==
  [][\A s \in SnapIds :
       /\ (release_snapshot(s) /\ snaps[s].some) =>
            /\ last'.result = Ok
            /\ Released(s)'
       /\ (release_snapshot(s) /\ Released(s)) =>
            /\ last'.result = SnapshotReleased
            /\ UNCHANGED <<inner, db_ref_live, strong, db_alive, store, iters, snaps,
                           snapiters, cf_opts>>
       /\ (Released(s) /\ (snapshot_get(s, ":spo", <<1, 2>>)
                            \/ snapshot_prefix_iterator(s, ":spo", <<1>>))) =>
            /\ last'.result = SnapshotReleased
            /\ UNCHANGED <<snaps, snapiters, strong>>]_vars

\* a second release_snapshot was refused while the key the snapshot had
\* frozen is stored
C17_Witness ==
  \E s \in SnapIds :
    /\ Released(s)
    /\ last.op = "release_snapshot" /\ last.id = s /\ last.result = SnapshotReleased
    /\ store["spo"][<<1, 2>>] = <<7>>

(***************************************************************************)
(* Specification of the threads sharing one cursor                         *)
(***************************************************************************)
CursorCalls ==
  {TCall("iterator_next", "", <<>>, <<>>, i, <<>>) : i \in IterIds}
    \cup {TCall("iterator_seek", "", <<1, 1>>, <<>>, i, <<>>) : i \in IterIds}
    \cup {TCall("iterator_collect", "", <<>>, <<>>, i, <<>>) : i \in IterIds}
    \cup {TCall("iterator_close", "", <<>>, <<>>, i, <<>>) : i \in IterIds}

NextCursor ==
  \/ \E t \in Threads : read_lock(t, TCall("prefix_iterator", ":spo", <<1>>, <<>>, 0, <<>>))
  \/ \E t \in Threads : engine_prefix_iterator(t)
  \/ \E t \in Threads, c \in CursorCalls : mutex_lock(t, c)
  \/ \E t \in Threads : iterator_next_read(t)
  \/ \E t \in Threads : iterator_next_return(t)
  \/ \E t \in Threads : iterator_seek_create(t)
  \/ \E t \in Threads : iterator_seek_replace(t)
  \/ \E t \in Threads : iterator_collect_locked(t)
  \/ \E t \in Threads : iterator_close_locked(t)

SpecCursor == Init /\ [][NextCursor]_vars

\* the threads inside the critical section of the iterator
InSection(i) ==
  {t \in Threads : pc[t] \in {"cursor", "read", "seek"} /\ call[t].op \in IteratorOps
                     /\ call[t].id = i}

\* thread t returns from the call op on iterator i in this step
Returns(t, op, i) ==
  /\ pc[t] # "idle" /\ pc'[t] = "idle"
  /\ call[t].op = op /\ call[t].id = i

Observes(t, op, i) ==
  /\ pc[t] = "cursor" /\ pc'[t] # "cursor"
  /\ call[t].op = op /\ call[t].id = i

\* C19: iterator_seek replaces the cursor in one step under the mutex.
\* While it creates the new engine iterator the IteratorRef is as before;
\* the step that returns ok installs a whole cursor positioned at the
\* target; no thread looks at the cursor while a seek is between the two;
\* the Option becomes empty by iterator_close only, so that a concurrent
\* iterator_next or iterator_collect returns iterator_closed only for an
\* iterator that iterator_close has closed.
C19_SeekSwapsWhole ==
  [][\A i \in IterIds, t \in Threads :
       /\ (Observes(t, "iterator_seek", i) /\ pc'[t] = "seek") => iters'[i] = iters[i]
       /\ (Returns(t, "iterator_seek", i) /\ last'.result = Ok) =>
            /\ iters'[i].some
            /\ iters'[i].iterator \in seek_cursors(store, iters[i].cf_name, call[t].key)
            /\ iters'[i].prefix = iters[i].prefix
       /\ (Observes(t, "iterator_next", i) \/ Observes(t, "iterator_collect", i)) =>
            /\ \A u \in Threads : ~(pc[u] = "seek" /\ call[u].id = i)
            /\ (pc'[t] = "idle" /\ last'.result = IteratorClosed) => ~iters[i].some
       /\ (iters[i].some /\ ~iters'[i].some) =>
            \E u \in Threads : Returns(u, "iterator_close", i)]_vars

\* a seek has created its new cursor, which differs from the cursor still
\* in place, after an iterator_next had delivered the first entry
C19_Witness ==
  \E i \in IterIds, u \in Threads :
    /\ pc[u] = "seek" /\ call[u].id = i
    /\ iters[i].some
    /\ last.op = "iterator_next" /\ last.result = <<"ok", <<1, 1>>, <<7>>>>
    /\ iters[i].iterator.rest # call[u].value.rest
    /\ Head(call[u].value.rest) = <<1, 1>>

(***************************************************************************)
(* Specification of the point operations                                   *)
(***************************************************************************)
PointCfs == {":spo", ":id2str"}

PointKeys == {<<1, 1>>, <<1, 2>>}

NextPoint ==
  \/ close
  \/ \E cf \in PointCfs, k \in PointKeys, v \in {<<7>>, <<8>>} : put(cf, k, v)
  \/ \E cf \in PointCfs, k \in PointKeys : delete(cf, k)
  \/ \E cf \in PointCfs, k \in PointKeys : get(cf, k)
  \/ mixed_batch(SnapBatch, FALSE)

SpecPoint == Init /\ [][NextPoint]_vars

\* the step is a call that returned ok and wrote to the key of the family:
\* a put or delete of it, or the batch, which puts <<1, 2>> and deletes
\* <<1, 1>> in spo
WritesTo(cf, k) ==
  /\ last'.result = Ok
  /\ \/ \E v \in Vals : put(cf, k, v)
     \/ delete(cf, k)
     \/ cf = ":spo" /\ mixed_batch(SnapBatch, FALSE)

\* C20: on an open handle, after put(cf, k, v) returned ok, get(cf, k)
\* returns {ok, v} until the next write to (cf, k); after delete(cf, k)
\* returned ok, get(cf, k) returns not_found until the next put to
\* (cf, k); delete of an absent key returns ok.  The value get returns is
\* the one the engine holds, only a write to (cf, k) changes it, and a get
\* directly after the put or delete returns the value put or not_found.
C20_PutGetDelete ==
  [][\A cf \in PointCfs, k \in PointKeys :
       LET cf_name == cf_atom_to_name(cf) IN
       /\ \A v \in Vals : (put(cf, k, v) /\ last'.result = Ok) => store'[cf_name][k] = v
       /\ (delete(cf, k) /\ last'.result = Ok) => store'[cf_name][k] = NoVal
       /\ (delete(cf, k) /\ inner = "Some") => last'.result = Ok
       /\ (get(cf, k) /\ inner = "Some") =>
            last'.result = IF store[cf_name][k] = NoVal THEN NotFound
                           ELSE <<"ok", store[cf_name][k]>>
       /\ ~WritesTo(cf, k) => store'[cf_name][k] = store[cf_name][k]
       /\ (get(cf, k) /\ inner = "Some" /\ last.result = Ok /\ last.cf = cf /\ last.key = k) =>
            /\ last.op = "put" => last'.result = <<"ok", last.value>>
            /\ last.op = "delete" => last'.result = NotFound]_vars

\* a get returned not_found for a key that had been deleted while absent
C20_Witness ==
  /\ inner = "Some"
  /\ last.op = "get" /\ last.cf = ":id2str" /\ last.key = <<1, 1>>
  /\ last.result = NotFound
  /\ store["id2str"][<<1, 2>>] = <<8>>

(***************************************************************************)
(* exists and get (SpecHandle)                                             *)
(***************************************************************************)
\* the term of exists that corresponds to a term of get: presence for a
\* value, absence for not_found, the error itself for an error
ExistsOf(term) ==
  IF term = NotFound THEN <<"ok", <<FALSE>>>>
  ELSE IF term[1] = "ok" THEN <<"ok", <<TRUE>>>>
  ELSE term

\* C21: in every reachable state, for every column family and key, exists
\* returns {ok, true} exactly when get returns {ok, value}, {ok, false}
\* exactly when get returns not_found, and the same error exactly when get
\* returns an error.
C21_ExistsAgreesWithGet ==
  \A cf \in CfAtoms, k \in Keys :
    exists_term(inner, store, cf, k) = ExistsOf(get_term(inner, store, cf, k))

\* exists has just reported a stored key on the open handle, where get
\* returns its value
C21_Witness ==
  /\ inner = "Some"
  /\ last.op = "exists" /\ last.cf = ":spo" /\ last.key = <<1, 1>>
  /\ last.result = <<"ok", <<TRUE>>>>
  /\ get_term(inner, store, ":spo", <<1, 1>>) = <<"ok", <<7>>>>

(***************************************************************************)
(* Specification of the calls given a column family that does not exist    *)
(***************************************************************************)
CfEntries(op) ==
  IF op = "write_batch"
  THEN { Tuple(<<Atom(":spo"), Bin(<<1, 1>>), Bin(<<7>>)>>),
         Tuple(<<Atom(":bogus"), Bin(<<1, 1>>), Bin(<<7>>)>>),
         Tuple(<<Atom(":spo"), Bin(<<1, 1>>)>>) }
  ELSE IF op = "delete_batch"
  THEN { Tuple(<<Atom(":spo"), Bin(<<1, 1>>)>>),
         Tuple(<<Atom(":bogus"), Bin(<<1, 1>>)>>) }
  ELSE { Tuple(<<Atom(":put"), Atom(":spo"), Bin(<<1, 1>>), Bin(<<7>>)>>),
         Tuple(<<Atom(":delete"), Atom(":bogus"), Bin(<<1, 1>>)>>) }

CfLists(op) == UNION {[1..n -> CfEntries(op)] : n \in 1..MaxBatchLen}

NextCf ==
  \/ close
  \/ \E cf \in {":spo", ":bogus"} : get(cf, <<1, 1>>)
  \/ \E cf \in {":spo", ":bogus"} : exists(cf, <<1, 1>>)
  \/ \E cf \in {":spo", ":bogus"} : put(cf, <<1, 1>>, <<7>>)
  \/ \E cf \in {":spo", ":bogus"} : delete(cf, <<1, 1>>)
  \/ prefix_iterator(":bogus", <<1>>)
  \/ snapshot
  \/ \E s \in SnapIds : release_snapshot(s)
  \/ \E s \in SnapIds, cf \in {":spo", ":bogus"} : snapshot_get(s, cf, <<1, 1>>)
  \/ \E s \in SnapIds : snapshot_prefix_iterator(s, ":bogus", <<1>>)
  \/ \E l \in CfLists("write_batch") : write_batch(l, FALSE)
  \/ \E l \in CfLists("delete_batch") : delete_batch(l, FALSE)
  \/ \E l \in CfLists("mixed_batch") : mixed_batch(l, FALSE)

SpecCf == Init /\ [][NextCf]_vars

\* the step is a call of a point, iterator or snapshot operation with the
\* family atom cf
FamilyCall(cf) ==
  \/ get(cf, <<1, 1>>) \/ exists(cf, <<1, 1>>)
  \/ put(cf, <<1, 1>>, <<7>>) \/ delete(cf, <<1, 1>>)
  \/ prefix_iterator(cf, <<1>>)
  \/ \E s \in SnapIds : snapshot_get(s, cf, <<1, 1>>) \/ snapshot_prefix_iterator(s, cf, <<1>>)

\* the step is a batch call
BatchStep == last'.op \in BatchOps /\ batch_call(last'.op, last'.ops)

\* the entries of the list that name the family :bogus
BogusEntries(operations) ==
  {n \in 1..Len(operations) : \E m \in 1..Len(operations[n][2]) :
     operations[n][2][m] = Atom(":bogus")}

\* the step returned invalid_cf carrying :bogus, created no family and
\* left the contents as they were
RejectedCf ==
  /\ last'.result = <<"error", <<"invalid_cf", ":bogus">>>>
  /\ DOMAIN store' = CfNameSet
  /\ UNCHANGED <<store, iters, snaps, snapiters, strong>>

NextSnapScan ==
  \/ put(":spo", <<1, 2>>, <<7>>)
  \/ delete(":spo", <<1, 1>>)
  \/ snapshot
  \/ \E s \in SnapIds : snapshot_prefix_iterator(s, ":spo", <<1>>)
  \/ \E i \in SnapIterIds : snapshot_iterator_next(i)
  \/ \E i \in SnapIterIds : snapshot_iterator_collect(i)

SpecSnapScan == Init /\ [][NextSnapScan]_vars

\* the key/value pairs of the entries of a scan
Pairs(scan) == [n \in 1..Len(scan) |-> <<scan[n][2], scan[n][3]>>]

\* the snapshot iterators that are free before the step and live after it
NewSnapIters ==
  {i \in SnapIterIds : snapiters[i].res = "free" /\ snapiters'[i].res = "live"}

\* C23: a snapshot freezes the contents of the moment it is taken and no
\* write changes a snapshot or a snapshot iterator; the snapshot iterator
\* snapshot_prefix_iterator creates scans exactly the entries of the
\* frozen view whose key starts with the prefix, in ascending order, with
\* the values of that view; snapshot_iterator_next returns the first entry
\* of that scan still to come and snapshot_iterator_collect all of them.
C23_SnapshotScanFrozen ==
  [][/\ \A s \in SnapIds :
          (snaps[s].res = "free" /\ snaps'[s].res = "live") => snaps'[s].view = store
     /\ store' # store => UNCHANGED <<snaps, snapiters>>
     /\ \A i \in SnapIterIds :
          /\ i \in NewSnapIters =>
               Scan(snapiters'[i]) =
                 Matching(snaps[last'.id].view[snapiters'[i].cf_name], snapiters'[i].prefix)
          /\ (snapiters[i].res = "live" /\ snapshot_iterator_next(i)) =>
               /\ last'.result = IF Scan(snapiters[i]) = <<>> THEN IteratorEnd
                                 ELSE Head(Scan(snapiters[i]))
               /\ Scan(snapiters[i]) # <<>> => Scan(snapiters'[i]) = Tail(Scan(snapiters[i]))
          /\ (snapiters[i].res = "live" /\ snapshot_iterator_collect(i)) =>
               last'.result = <<"ok", Pairs(Scan(snapiters[i]))>>]_vars

\* a snapshot iterator created after a delete and a put on the live store
\* has just returned the deleted key and still has the old value to deliver
C23_Witness ==
  \E i \in SnapIterIds :
    /\ snapiters[i].res = "live"
    /\ store["spo"][<<1, 1>>] = NoVal /\ store["spo"][<<1, 2>>] = <<7>>
    /\ snapiters[i].iterator.view[<<1, 1>>] = <<7>>
    /\ last.op = "snapshot_iterator_next" /\ last.result = <<"ok", <<1, 1>>, <<7>>>>
    /\ Scan(snapiters[i]) = <<<<"ok", <<1, 2>>, <<8>>>>>>

(***************************************************************************)
(* iterator_collect against iterator_next (SpecIter)                       *)
(***************************************************************************)
\* C24: from any cursor position of an open iterator, iterator_collect
\* returns in one ordered list exactly the entries that repeated
\* iterator_next calls from that position would return up to the first
\* end-of-stream, and after it the iterator is still open and the next
\* iterator_next reports end-of-stream.
C24_Original ==
  [][\A i \in IterIds :
       /\ (iters[i].res = "live" /\ iters[i].some /\ iterator_collect(i)) =>
            /\ last'.result = <<"ok", Pairs(Scan(iters[i]))>>
            /\ iters'[i].some
       /\ (/\ iters[i].res = "live" /\ iters[i].some
           /\ last.op = "iterator_collect" /\ last.id = i /\ last.result[1] = "ok"
           /\ iterator_next(i)) =>
            last'.result = IteratorEnd]_vars

(***************************************************************************)
(* Specification of the scan modes                                         *)
(***************************************************************************)
ModeCfs == {":spo", ":id2str"}

ModePrefixes == {<<0>>, Id8(1)}

NextModes ==
  \/ put(":spo", Id8(1) \o <<1>>, <<7>>)
  \/ \E cf \in ModeCfs, p \in ModePrefixes : prefix_iterator(cf, p)
  \/ snapshot
  \/ \E s \in SnapIds, cf \in ModeCfs, p \in ModePrefixes : snapshot_prefix_iterator(s, cf, p)

SpecModes == Init /\ [][NextModes]_vars

\* the scan mode the family and the length of the prefix call for
ModeOf(cf_name, prefix) ==
  IF cf_name \in {"spo", "pos", "osp", "numeric_range"}
  THEN IF Len(prefix) >= 8
       THEN [prefix_same_as_start |-> TRUE, total_order_seek |-> FALSE]
       ELSE [prefix_same_as_start |-> FALSE, total_order_seek |-> TRUE]
  ELSE [prefix_same_as_start |-> FALSE, total_order_seek |-> FALSE]

\* the cursor has the mode of its family and prefix, and its scan is the
\* entries of the contents it was created on whose key starts with the prefix
ModeRight(it, view) ==
  /\ it.iterator.read_opts = ModeOf(it.cf_name, it.prefix)
  /\ Scan(it) = Matching(view, it.prefix)

\* C25: prefix_iterator and snapshot_prefix_iterator select same-prefix
\* matching with total-order seek off for a prefix-indexed family and a
\* prefix of at least 8 bytes, total-order seek for a prefix-indexed
\* family and a shorter prefix, the default mode for the other families;
\* in every mode the scan skips no stored key that starts with the prefix.
C25_ScanModes ==
  [][/\ \A cf_name \in CfNameSet, p \in ModePrefixes \cup {<<>>, Id8(1) \o <<1>>} :
          select_read_opts(cf_name, p) = ModeOf(cf_name, p)
     /\ \A i \in NewIters : ModeRight(iters'[i], store[iters'[i].cf_name])
     /\ \A i \in NewSnapIters :
          ModeRight(snapiters'[i], snaps[last'.id].view[snapiters'[i].cf_name])]_vars

\* a snapshot iterator in same-prefix mode scans the one key of its
\* identifier while the snapshot holds a key of another prefix
C25_Witness ==
  \E i \in SnapIterIds :
    /\ snapiters[i].res = "live" /\ snapiters[i].cf_name = "spo"
    /\ snapiters[i].prefix = Id8(1)
    /\ snapiters[i].iterator.read_opts.prefix_same_as_start
    /\ snapiters[i].iterator.view[<<1, 1>>] # NoVal
    /\ Scan(snapiters[i]) = <<<<"ok", Id8(1) \o <<1>>, <<7>>>>>>

(***************************************************************************)
(* Specification of the runtime options                                    *)
(***************************************************************************)
\* two option lists, so that a family's old options may be new ones of an
\* earlier call
NewOptions == {1, 2}

NextOptions ==
  \/ close
  \/ put(":spo", <<1, 2>>, <<7>>)
  \/ \E o \in NewOptions, f \in 0..Len(CF_NAMES) : set_options(o, f)

SpecOptions == Init /\ [][NextOptions]_vars

\* what set_options leaves when the engine refuses the options on the f-th
\* family of the order (f = 0: on none)
OptionsAfter(o, f) ==
  /\ \A n \in 1..7 :
       LET cf == <<"id2str", "str2id", "spo", "pos", "osp", "derived", "numeric_range">>[n]
       IN  cf_opts'[cf] = IF f = 0 \/ n < f THEN o ELSE cf_opts[cf]
  /\ last'.result = IF f = 0 THEN <<"ok">>
                    ELSE <<"error", <<"set_options_failed", CF_NAMES[f]>>>>
  /\ store' = store

\* C26: set_options applies the options family by family in the order of
\* CF_NAMES; when a family fails it stops and returns set_options_failed
\* naming that family, the families before it keep the new options, the
\* failing one and the later ones keep the old; the store never changes.
C26_SetOptionsInOrder ==
  [][\A o \in NewOptions, f \in 0..7 :
       (inner = "Some" /\ set_options(o, f)) => OptionsAfter(o, f)]_vars

\* a call has failed on pos: the two families before spo hold the options
\* of that call, spo too, pos and the later ones hold those of an earlier call
C26_Witness ==
  /\ last.op = "set_options"
  /\ last.result = <<"error", <<"set_options_failed", "pos">>>>
  /\ cf_opts["id2str"] = 2 /\ cf_opts["str2id"] = 2 /\ cf_opts["spo"] = 2
  /\ cf_opts["pos"] = 1 /\ cf_opts["osp"] = 1 /\ cf_opts["numeric_range"] = 1
  /\ store["spo"][<<1, 2>>] = <<7>>

(***************************************************************************)
(* Specification of durability: the batches, the flush of the log, crashes *)
(***************************************************************************)
\* the state after open on a system that writes the log back when told to
InitWal == Opened /\ wal = Log(store, "write_back")

\* the process crashes and the path is opened again: the engine recovers
\* the contents from the log, every resource of the old process is gone
crash_open ==
  /\ store' \in recovered(wal)
  /\ wal' = Log(store', wal.os)
  /\ inner' = "Some" /\ db_ref_live' = TRUE /\ strong' = 1 /\ db_alive' = TRUE
  /\ iters' = [i \in IterIds |-> FreeIter]
  /\ snaps' = [s \in SnapIds |-> FreeSnap]
  /\ snapiters' = [i \in SnapIterIds |-> FreeIter]
  /\ cf_opts' = [cf \in CfNameSet |-> 0]
  /\ last' = Call("open", "", <<>>, <<>>, 0, Ok)
  /\ UNCHANGED conc

\* a batch in two families, and one that takes a key away again
WalBatch ==
  << Tuple(<<Atom(":put"), Atom(":spo"), Bin(<<1, 2>>), Bin(<<7>>)>>),
     Tuple(<<Atom(":put"), Atom(":id2str"), Bin(<<1, 2>>), Bin(<<7>>)>>) >>

WalDeletes == << Tuple(<<Atom(":id2str"), Bin(<<1, 2>>)>>) >>

WalPuts == << Tuple(<<Atom(":id2str"), Bin(<<1, 1>>), Bin(<<8>>)>>) >>

NextWal ==
  \/ close
  \/ \E sync \in BOOLEAN : mixed_batch(WalBatch, sync)
  \/ \E sync \in BOOLEAN : delete_batch(WalDeletes, sync)
  \/ \E sync \in BOOLEAN : write_batch(WalPuts, sync)
  \/ \E sync \in BOOLEAN : flush_wal(sync)
  \/ crash_open

SpecWal == InitWal /\ [][NextWal]_vars

WalLists == {WalBatch, WalDeletes, WalPuts}

\* the step adds nothing to what a crash can leave but the contents it leaves
LogKeeps == recovered(wal') \subseteq recovered(wal) \cup {store'}

\* a crash leaves contents the log could recover
CrashRecovers == crash_open => store' \in recovered(wal)

\* C27: when a batch call given the durability flag true returns ok, all
\* the effects of the batch survive a crash at any time after the return;
\* with the flag false, after a crash either all of the effects of the
\* batch are present or none of them, never a part.
C27_BatchDurability ==
  [][/\ \A op \in BatchOps, l \in WalLists, sync \in BOOLEAN :
          (batch_write(op, l, sync) /\ last'.result = <<"ok">>) =>
             /\ store' = AllApplied(op, store, l)
             /\ sync => recovered(wal') = {store'}
     /\ LogKeeps
     /\ CrashRecovers]_vars

\* the batch in two families has returned ok with the flag true, on a system
\* that writes the log back: a crash can only leave the contents with both puts
C27_Witness ==
  /\ wal.os = "write_back"
  /\ last.op = "mixed_batch" /\ last.ops = WalBatch /\ last.sync
  /\ last.result = <<"ok">>
  /\ \A st \in recovered(wal) :
       st["spo"][<<1, 2>>] = <<7>> /\ st["id2str"][<<1, 2>>] = <<7>>

\* C28: after flush_wal with sync true has returned ok, the effects of every
\* batch that returned ok before it, non-durable ones included, survive a
\* later crash; flush_wal never changes the store, and on a closed handle
\* it returns already_closed.
C28_FlushMakesDurable ==
  [][/\ (last'.op = "flush_wal" /\ flush_wal(last'.sync)) =>
          /\ store' = store
          /\ inner = "None" => last'.result = <<"error", <<"already_closed">>>>
          /\ (last'.sync /\ last'.result = <<"ok">>) => recovered(wal') = {store}
     /\ recovered(wal') \subseteq recovered(wal) \cup {store'}
     /\ crash_open => store' \in recovered(wal)]_vars

\* flush_wal with sync true has returned ok on a system that writes the log
\* back: a crash can only leave the contents now, with both puts of the batch
C28_Witness ==
  /\ wal.os = "write_back"
  /\ last.op = "flush_wal" /\ last.sync /\ last.result = <<"ok">>
  /\ recovered(wal) = {store}
  /\ store["spo"][<<1, 2>>] = <<7>> /\ store["id2str"][<<1, 2>>] = <<7>>
  /\ store["id2str"][<<1, 1>>] = <<8>>

(***************************************************************************)
(* Specification of the entries of mixed_batch                             *)
(***************************************************************************)
\* a tagged put, the untagged shorthand, an unknown tag, the empty entry,
\* a tagged entry of the wrong arity and a put in an unknown family
MixedEntries ==
  { Tuple(<<Atom(":put"), Atom(":spo"), Bin(<<1, 2>>), Bin(<<7>>)>>),
    Tuple(<<Atom(":spo"), Bin(<<1, 2>>), Bin(<<7>>)>>),
    Tuple(<<Atom(":merge"), Atom(":spo"), Bin(<<1, 2>>), Bin(<<7>>)>>),
    Tuple(<<>>),
    Tuple(<<Atom(":delete"), Atom(":spo")>>),
    Tuple(<<Atom(":put"), Atom(":bogus"), Bin(<<1, 2>>), Bin(<<7>>)>>) }

MixedLists == UNION {[1..n -> MixedEntries] : n \in 1..MaxBatchLen}

NextMixed ==
  \/ close
  \/ \E l \in MixedLists : mixed_batch(l, TRUE)

SpecMixed == Init /\ [][NextMixed]_vars

\* the entry is neither {put, cf, key, value} nor {delete, cf, key}
BadShape(item) ==
  LET tuple == item[2] IN
  \/ Len(tuple) = 0
  \/ /\ Len(tuple) > 0
     /\ \/ tuple[1][2] \notin {":put", ":delete"}
        \/ tuple[1][2] = ":put" /\ Len(tuple) # 4
        \/ tuple[1][2] = ":delete" /\ Len(tuple) # 3

\* the entry has one of the two forms and names no column family
BadFamily(item) ==
  /\ ~BadShape(item)
  /\ item[2][2][2] \notin {":id2str", ":str2id", ":spo", ":pos", ":osp", ":derived",
                            ":numeric_range"}

\* the call returns an invalid_operation error and writes nothing
InvalidOperationReturned ==
  /\ last'.result[1] = "error"
  /\ last'.result[2][1] = "invalid_operation"
  /\ store' = store

MixedStep == last'.op = "mixed_batch" /\ mixed_batch(last'.ops, last'.sync)

\* C29 as stated: a mixed_batch whose list has an entry that is not of the
\* two tagged forms returns an invalid_operation error and writes nothing.
C29_Original ==
  [][(MixedStep /\ \E n \in 1..Len(last'.ops) : BadShape(last'.ops[n])) =>
       InvalidOperationReturned]_vars

\* C29: mixed_batch accepts only the tagged entries {put, cf, key, value}
\* and {delete, cf, key}: on an open handle, when the first entry that is
\* not accepted is an untagged shorthand, an entry whose tag is neither put
\* nor delete, an empty entry or a tagged entry of the wrong arity, the call
\* returns an invalid_operation error and nothing is written.
C29_MixedTaggedOnly ==
  [][MixedStep =>
       LET ops == last'.ops
           bad == {n \in 1..Len(ops) : BadShape(ops[n]) \/ BadFamily(ops[n])}
       IN  /\ last'.result = <<"ok">> => bad = {}
           /\ (/\ inner = "Some"
               /\ bad # {}
               /\ BadShape(ops[CHOOSE n \in bad : \A m \in bad : n <= m]))
                 => InvalidOperationReturned]_vars

\* a mixed_batch whose second entry is the untagged shorthand, after a put
\* it accepts, has returned invalid_operation and the put is not in the store
C29_Witness ==
  /\ last.op = "mixed_batch" /\ Len(last.ops) = 2
  /\ last.ops[1] = Tuple(<<Atom(":put"), Atom(":spo"), Bin(<<1, 2>>), Bin(<<7>>)>>)
  /\ last.ops[2] = Tuple(<<Atom(":spo"), Bin(<<1, 2>>), Bin(<<7>>)>>)
  /\ last.result = <<"error", <<"invalid_operation", ":spo">>>>
  /\ store["spo"][<<1, 2>>] # <<7>>

(***************************************************************************)
(* Specification of the column families                                    *)
(***************************************************************************)
\* atoms a caller may hand over: the families, operation tags, others
SomeAtoms ==
  {":id2str", ":str2id", ":spo", ":pos", ":osp", ":derived", ":numeric_range",
   ":bogus", ":put", ":delete", ":ok", ":default", ":"}

NextFamilies ==
  \/ close
  \/ list_column_families
  \/ \E cf \in {":id2str", ":spo", ":derived", ":numeric_range", ":bogus"} :
       put(cf, <<1, 1>>, <<7>>)

SpecFamilies == Init /\ [][NextFamilies]_vars

\* the name of the family an atom stands for: the atom without its colon
NameOf(atom) ==
  CHOOSE name \in {"id2str", "str2id", "spo", "pos", "osp", "derived", "numeric_range"} :
    atom = ":" \o name

\* C30: list_column_families returns the same seven distinct non-empty
\* identifiers in every state, the handle open or closed, and this set is
\* exactly the set the column family dispatch accepts and open creates.
C30_FamiliesFixed ==
  [][list_column_families =>
       LET r == last'.result
           listed == {r[n] : n \in 1..Len(r)}
       IN  /\ r = <<":id2str", ":str2id", ":spo", ":pos", ":osp", ":derived",
                    ":numeric_range">>
           /\ Len(r) = 7 /\ Cardinality(listed) = 7 /\ ":" \notin listed
           /\ listed = {a \in SomeAtoms : cf_atom_to_name(a) # "none"}
           /\ \A a \in listed : cf_atom_to_name(a) = NameOf(a)
           /\ {NameOf(a) : a \in listed} = DOMAIN store
           /\ {NameOf(a) : a \in listed} = {CF_NAMES[n] : n \in 1..Len(CF_NAMES)}
           /\ store' = store /\ inner' = inner]_vars

\* the list has been returned on a closed handle whose store holds a key in
\* the family derived
C30_Witness ==
  /\ inner = "None"
  /\ last.op = "list_column_families" /\ Len(last.result) = 7
  /\ last.result[6] = ":derived"
  /\ store["derived"][<<1, 1>>] = <<7>>

(***************************************************************************)
(* Specification of poisoned locks                                         *)
(***************************************************************************)
\* the mark std::sync leaves on a RwLock or Mutex whose guard was dropped by
\* a panic: the lock is free, and every later acquisition returns Err
Poisoned == 0 - 1

\* a poisoned lock reported as a closed handle
LockPoisonedAsClosed == AlreadyClosed

\* map_err(|_| rustler::Error::Term(Box::new("lock poisoned")))?
LockPoisoned == Raise("lock poisoned")

\* thread t panics while it holds the write lock of DbRef.inner or the Mutex
\* of a dependent: the unwinding drops the guard and poisons the lock
panic(t) ==
  /\ pc[t] \in {"closing", "cursor"}
  /\ IF pc[t] = "closing"
     THEN writer' = Poisoned /\ UNCHANGED mutex
     ELSE /\ mutex' = [mutex EXCEPT ![resource_of(call[t])] = Poisoned]
          /\ UNCHANGED writer
  /\ finish(t, Raise("nif_panicked"))
  /\ UNCHANGED <<readers, calls>>
  /\ SeqFrame

\* thread t starts the call c and the lock the call takes is poisoned: the
\* family is resolved first by the calls that do so, then read(), write()
\* or lock() returns Err and the call returns
lock_poisoned(t, c) ==
  /\ pc[t] = "idle"
  /\ started
  /\ \/ /\ c.op \in ReadLockOps \cup {"close"}
        /\ db_ref_live
        /\ ~(c.op \in FamilyFirstOps /\ cf_atom_to_name(c.cf) = "none")
        /\ writer = Poisoned
     \/ /\ c.op \in MutexOps
        /\ resource_live(c)
        /\ ~(/\ c.op \in {"snapshot_get", "snapshot_prefix_iterator"}
             /\ cf_atom_to_name(c.cf) = "none")
        /\ mutex[resource_of(c)] = Poisoned
  /\ returned(c, LockPoisoned)
  /\ UNCHANGED <<pc, call, readers, writer, mutex>>
  /\ SeqFrame

PoisonCalls ==
  { TCall("get", ":spo", <<1, 1>>, <<>>, 0, <<>>),
    TCall("get", ":bogus", <<1, 1>>, <<>>, 0, <<>>),
    TCall("put", ":spo", <<1, 2>>, <<7>>, 0, <<>>),
    TCall("prefix_iterator", ":spo", <<1>>, <<>>, 0, <<>>),
    TCall("snapshot", "", <<>>, <<>>, 0, <<>>) }

PoisonDepCalls ==
  { TCall("iterator_next", "", <<>>, <<>>, 1, <<>>),
    TCall("snapshot_get", ":spo", <<1, 1>>, <<>>, 1, <<>>),
    TCall("snapshot_get", ":bogus", <<1, 1>>, <<>>, 1, <<>>) }

NextPoison ==
  \/ \E t \in Threads, c \in PoisonCalls : read_lock(t, c)
  \/ \E t \in Threads : engine_read(t)
  \/ \E t \in Threads : engine_write(t)
  \/ \E t \in Threads : engine_prefix_iterator(t)
  \/ \E t \in Threads : engine_snapshot(t)
  \/ \E t \in Threads : write_lock(t)
  \/ \E t \in Threads : close_take(t)
  \/ \E t \in Threads, c \in PoisonDepCalls : mutex_lock(t, c)
  \/ \E t \in Threads : iterator_next_locked(t)
  \/ \E t \in Threads : snapshot_get_locked(t)
  \/ \E t \in Threads : panic(t)
  \/ \E t \in Threads, c \in PoisonCalls \cup {CloseCall} \cup PoisonDepCalls :
       lock_poisoned(t, c)

SpecPoison == Init /\ [][NextPoison]_vars

\* the step returns a call on the handle / on the dependent r
HandleReturn == last' # last /\ last'.op \in ReadLockOps \cup {"close"}

DepReturn(r) == last' # last /\ last'.op \in MutexOps /\ resource_of(last') = r

\* the dependent r is left as it is
DepKept(r) ==
  IF r[1] = "iterator" THEN iters'[r[2]] = iters[r[2]]
  ELSE IF r[1] = "snapshot" THEN snaps'[r[2]] = snaps[r[2]]
  ELSE snapiters'[r[2]] = snapiters[r[2]]

PoisonReturned == last'.result = <<"raise", "lock poisoned">>

\* the call resolves the family before it takes the lock, and the family is
\* unknown: it returns invalid_cf
FamilyRejected ==
  /\ last'.op \in {"get", "put", "delete", "exists", "prefix_iterator", "snapshot_get",
                    "snapshot_prefix_iterator"}
  /\ last'.cf = ":bogus"
  /\ last'.result = <<"error", <<"invalid_cf", ":bogus">>>>

\* C31 as stated: once a lock is poisoned, every operation on its resource
\* fails with the lock poisoned error.
C31_Original ==
  [][/\ (writer = Poisoned /\ HandleReturn) => PoisonReturned
     /\ \A r \in Resources :
          (mutex[r] = Poisoned /\ DepReturn(r)) => PoisonReturned]_vars

\* C31: an operation that finds the lock it acquires poisoned (the
\* handle's read/write lock, a cursor mutex or a snapshot mutex) fails with
\* the lock poisoned error, which differs from already_closed,
\* iterator_closed, snapshot_released, not_found and ok, and performs no
\* engine read or write; the lock stays poisoned, and every later operation
\* on the resource fails the same way, except that an operation that is
\* given an unknown column family and resolves it before it takes the lock
\* returns invalid_cf.
C31_PoisonIsFatal ==
  [][/\ LockPoisoned \notin {<<"error", <<"already_closed">>>>, <<"error", <<"iterator_closed">>>>,
                              <<"error", <<"snapshot_released">>>>, <<"not_found">>, <<"ok">>}
     /\ writer = Poisoned =>
          /\ writer' = Poisoned
          /\ store' = store /\ inner' = inner /\ strong' = strong
          /\ HandleReturn => (PoisonReturned \/ FamilyRejected)
     /\ \A r \in Resources :
          mutex[r] = Poisoned =>
            /\ mutex'[r] = Poisoned
            /\ DepKept(r)
            /\ DepReturn(r) => (PoisonReturned \/ FamilyRejected)]_vars

\* a put has found the handle's lock poisoned by a close that panicked: it
\* has returned the lock poisoned error and the key is not written
C31_Witness ==
  /\ writer = Poisoned
  /\ last.op = "put" /\ last.result = <<"raise", "lock poisoned">>
  /\ store["spo"][<<1, 2>>] # <<7>>

(***************************************************************************)
(* Specification of the prefix bound of the scans                          *)
(***************************************************************************)
\* seek targets inside the prefix <<1>> and below the prefix <<2>>, and past
\* the prefix <<1>>
BoundTargets == {<<1, 2>>, <<2>>}

NextBound ==
  \/ \E p \in Prefixes : prefix_iterator(":spo", p)
  \/ \E i \in IterIds, t \in BoundTargets : iterator_seek(i, t)
  \/ \E i \in IterIds : iterator_next(i)
  \/ \E i \in IterIds : iterator_collect(i)
  \/ snapshot
  \/ \E s \in SnapIds : snapshot_prefix_iterator(s, ":spo", <<1>>)
  \/ \E i \in SnapIterIds : snapshot_iterator_next(i)
  \/ \E i \in SnapIterIds : snapshot_iterator_collect(i)

SpecBound == Init /\ [][NextBound]_vars

\* the key the engine cursor of the resource delivers next does not start
\* with the prefix of the resource
OffPrefix(it) ==
  /\ it.some /\ it.iterator.rest # <<>>
  /\ ~starts_with(Head(it.iterator.rest), it.prefix)

\* the term of a next: an entry whose key starts with the prefix, or
\* end-of-stream when the key read does not start with it
NextBounded(it) ==
  /\ last'.result[1] = "ok" => starts_with(last'.result[2], it.prefix)
  /\ OffPrefix(it) => last'.result = <<"iterator_end">>

\* the term of a collect: every key of the list starts with the prefix
CollectBounded(it) ==
  last'.result[1] = "ok" =>
    \A n \in 1..Len(last'.result[2]) : starts_with(last'.result[2][n][1], it.prefix)

\* C32: every key returned by iterator_next, iterator_collect,
\* snapshot_iterator_next and snapshot_iterator_collect starts with the
\* prefix the iterator was created with, also after iterator_seek calls
\* with any target; a key read from the engine that does not start with
\* the prefix is not returned and is reported as end-of-stream.
C32_PrefixBound ==
  [][/\ \A i \in IterIds :
          /\ (last'.op = "iterator_next" /\ iterator_next(i)) => NextBounded(iters[i])
          /\ (last'.op = "iterator_collect" /\ iterator_collect(i)) => CollectBounded(iters[i])
     /\ \A i \in SnapIterIds :
          /\ (last'.op = "snapshot_iterator_next" /\ snapshot_iterator_next(i))
                => NextBounded(snapiters[i])
          /\ (last'.op = "snapshot_iterator_collect" /\ snapshot_iterator_collect(i))
                => CollectBounded(snapiters[i])]_vars

\* an iterator with prefix <<2>> was moved by a seek to the key <<1, 2>>, and
\* the iterator_next that read that key has reported end-of-stream
C32_Witness ==
  \E i \in IterIds :
    /\ iters[i].res = "live" /\ iters[i].prefix = <<2>>
    /\ last.op = "iterator_next" /\ last.id = i /\ last.result = <<"iterator_end">>
    /\ iters[i].iterator.rest = <<<<2, 1>>>>

(***************************************************************************)
(* The entries write_batch and delete_batch accept                         *)
(***************************************************************************)
\* entries of every arity from 0 to 5, tagged and untagged
ProbeEntries ==
  MalformedEntries("write_batch") \cup MalformedEntries("delete_batch")
    \cup MalformedEntries("mixed_batch")
    \cup { Tuple(<<Atom(":delete"), Atom(":spo"), Bin(<<1, 1>>), Bin(<<7>>)>>),
           Tuple(<<Atom(":spo")>>),
           Tuple(<<Atom(":put"), Atom(":spo"), Bin(<<1, 1>>), Bin(<<7>>), Bin(<<8>>)>>) }

\* what write_batch does with an entry: 4 elements with a tag other than
\* put, any arity but 3 and 4, and what it accepts is a put
WritePutsOnly(item) ==
  LET tuple == item[2]
      e == write_batch_entry(item)
  IN  /\ (Len(tuple) = 4 /\ tuple[1][2] # ":put") =>
           ~e.ok /\ e.term = <<"error", <<"invalid_operation", tuple[1][2]>>>>
      /\ Len(tuple) \notin {3, 4} => ~e.ok /\ e.term = <<"error", <<"invalid_operation">>>>
      /\ e.ok => /\ e.o[1] = "put"
                 /\ Len(tuple) = 3 \/ (Len(tuple) = 4 /\ tuple[1][2] = ":put")

\* what delete_batch does with an entry: any arity but 2, and what it
\* accepts is a delete
DeleteDeletesOnly(item) ==
  LET tuple == item[2]
      e == delete_batch_entry(item)
  IN  /\ Len(tuple) # 2 => ~e.ok /\ e.term = <<"error", <<"invalid_operation">>>>
      /\ e.ok => e.o[1] = "delete" /\ Len(tuple) = 2

\* the families and keys that hold a value
HeldKeys(st) == {<<cf, k>> \in CfNameSet \X Keys : st[cf][k] # NoVal}

\* C33: write_batch accepts only put entries, {family, key, value} or
\* {put, family, key, value}: a 4-element entry with another tag (delete
\* included) gets invalid_operation carrying the tag, an entry of another
\* arity invalid_operation; delete_batch accepts only 2-element
\* {family, key} entries and gives invalid_operation for any other arity
\* (a tagged {delete, family, key} included); a write_batch that returns ok
\* removes no key and a delete_batch that returns ok adds none.
C33_PutsAndDeletesOnly ==
  [][/\ \A item \in ProbeEntries : WritePutsOnly(item) /\ DeleteDeletesOnly(item)
     /\ (last'.op = "write_batch" /\ batch_call("write_batch", last'.ops)) =>
          /\ \A n \in 1..Len(last'.ops) : WritePutsOnly(last'.ops[n])
          /\ last'.result = <<"ok">> => HeldKeys(store) \subseteq HeldKeys(store')
          /\ (/\ inner = "Some"
              /\ FirstBad("write_batch", last'.ops) # 0
              /\ Len(last'.ops[FirstBad("write_batch", last'.ops)][2]) = 4
              /\ Kind("write_batch", last'.ops[FirstBad("write_batch", last'.ops)]) = "tag")
                => last'.result = <<"error", <<"invalid_operation", ":merge">>>>
     /\ (last'.op = "delete_batch" /\ batch_call("delete_batch", last'.ops)) =>
          /\ \A n \in 1..Len(last'.ops) : DeleteDeletesOnly(last'.ops[n])
          /\ last'.result = <<"ok">> => HeldKeys(store') \subseteq HeldKeys(store)
          /\ (/\ inner = "Some"
              /\ FirstBad("delete_batch", last'.ops) # 0
              /\ Len(last'.ops[FirstBad("delete_batch", last'.ops)][2]) # 2)
                => last'.result = <<"error", <<"invalid_operation">>>>]_vars

\* a delete_batch whose second entry is a tagged {delete, family, key} has
\* returned invalid_operation and the key of its first entry is still there
C33_Witness ==
  /\ last.op = "delete_batch" /\ Len(last.ops) = 2
  /\ last.ops[1] = Tuple(<<Atom(":spo"), Bin(<<1, 1>>)>>)
  /\ last.ops[2] = Tuple(<<Atom(":delete"), Atom(":spo"), Bin(<<1, 1>>)>>)
  /\ last.result = <<"error", <<"invalid_operation">>>>
  /\ store["spo"][<<1, 1>>] = <<7>>

\* C34 as stated: once iterator_next on an open iterator has returned
\* end-of-stream, the iterator_next that follows it on that iterator (no
\* iterator_seek in between) returns end-of-stream too, whatever the history
\* of the iterator, a seek below the prefix included.
C34_Original ==
  [][\A i \in IterIds :
       (/\ iters[i].res = "live" /\ iters[i].some
        /\ last.op = "iterator_next" /\ last.id = i /\ last.result = <<"iterator_end">>
        /\ last'.op = "iterator_next" /\ iterator_next(i))
         => last'.result = <<"iterator_end">>]_vars


(***************************************************************************)
(* Specification of the closing of dependent resources                     *)
(***************************************************************************)
NextShut ==
  \/ close
  \/ prefix_iterator(":spo", <<1>>)
  \/ \E i \in IterIds : iterator_close(i)
  \/ snapshot
  \/ \E s \in SnapIds : snapshot_prefix_iterator(s, ":spo", <<1>>)
  \/ \E i \in SnapIterIds : snapshot_iterator_next(i)
  \/ \E i \in SnapIterIds : snapshot_iterator_close(i)
  \/ \E s \in SnapIds : release_snapshot(s)
  \/ \E s \in SnapIds : drop_snapshot(s)

SpecShut == Init /\ [][NextShut]_vars

\* what no close of a dependent resource touches: the handle, the engine
\* and its references, the store
Untouched == UNCHANGED <<inner, db_ref_live, strong, db_alive, store, cf_opts>>

\* an open cursor delivers what its own position and view give
Usable(it) == IF it.iterator.rest = <<>> THEN <<"iterator_end">>
              ELSE IF ~starts_with(Head(it.iterator.rest), it.prefix) THEN <<"iterator_end">>
              ELSE <<"ok", Head(it.iterator.rest), it.iterator.view[Head(it.iterator.rest)]>>

\* C35: iterator_close, snapshot_iterator_close and release_snapshot change
\* only the open/closed flag of their own resource: the resource stays
\* allocated with its reference to the engine (the count of references and
\* the engine are as before, and the engine is alive as long as a resource
\* is not dropped), store and handle are unchanged, every other iterator,
\* snapshot and snapshot iterator is unchanged, and an open snapshot
\* iterator, one created from a snapshot released since included, still
\* delivers the next entry of its own cursor.
C35_CloseTouchesOwnFlag ==
  /\ [](\A i \in IterIds : iters[i].res = "live" => db_alive)
  /\ [](\A s \in SnapIds : snaps[s].res = "live" => db_alive)
  /\ [](\A i \in SnapIterIds : snapiters[i].res = "live" => db_alive)
  /\ [][/\ \A i \in IterIds :
            (last'.op = "iterator_close" /\ iterator_close(i)) =>
                 /\ Untouched
                 /\ UNCHANGED <<snaps, snapiters>>
                 /\ \A j \in IterIds \ {i} : iters'[j] = iters[j]
                 /\ iters'[i].res = "live"
                 /\ iters[i].some => (last'.result = <<"ok">> /\ ~iters'[i].some)
        /\ \A i \in SnapIterIds :
            /\ (last'.op = "snapshot_iterator_close" /\ snapshot_iterator_close(i)) =>
                 /\ Untouched
                 /\ UNCHANGED <<snaps, iters>>
                 /\ \A j \in SnapIterIds \ {i} : snapiters'[j] = snapiters[j]
                 /\ snapiters'[i].res = "live"
                 /\ snapiters[i].some => (last'.result = <<"ok">> /\ ~snapiters'[i].some)
            /\ (last'.op = "snapshot_iterator_next" /\ snapshot_iterator_next(i)
                  /\ snapiters[i].some) =>
                 last'.result = Usable(snapiters[i])
        /\ \A s \in SnapIds :
            (last'.op = "release_snapshot" /\ release_snapshot(s)) =>
                 /\ Untouched
                 /\ UNCHANGED <<iters, snapiters>>
                 /\ \A r \in SnapIds \ {s} : snaps'[r] = snaps[r]
                 /\ snaps'[s].res = "live"
                 /\ snaps[s].some => (last'.result = <<"ok">> /\ ~snaps'[s].some)]_vars

\* a snapshot iterator has delivered the second entry of the frozen view
\* after its snapshot was released, an iterator was closed and the handle
\* was closed: the three resources still hold their references
C35_Witness ==
  /\ inner = "None"
  /\ \A s \in SnapIds : snaps[s].res = "live" /\ ~snaps[s].some
  /\ \E i \in IterIds : iters[i].res = "live" /\ ~iters[i].some
  /\ \E i \in SnapIterIds : snapiters[i].res = "live" /\ snapiters[i].some
  /\ last.op = "snapshot_iterator_next" /\ last.result = <<"ok", <<1, 2>>, <<8>>>>
  /\ strong = 3
  /\ db_alive


(***************************************************************************)
(* Specification of the locks: a call first waits for its lock             *)
(***************************************************************************)
\* release_snapshot with the snapshot locked
release_snapshot_locked(t) ==
  LET s == call[t].id IN
  /\ pc[t] = "cursor"
  /\ call[t].op = "release_snapshot"
  /\ finish(t, release_term(snaps[s]))
  /\ snaps' = [snaps EXCEPT ![s] = release_rec(snaps[s])]
  /\ mutex_unlock(t)
  /\ UNCHANGED <<readers, writer, calls, wal>>
  /\ UNCHANGED <<inner, db_ref_live, strong, db_alive, store, iters, snapiters, cf_opts>>

LockCalls ==
  { TCall("put", ":spo", <<1, 1>>, <<7>>, 0, <<>>),
    TCall("prefix_iterator", ":spo", <<1>>, <<>>, 0, <<>>),
    TCall("snapshot", "", <<>>, <<>>, 0, <<>>),
    CloseCall }
    \cup {TCall("iterator_next", "", <<>>, <<>>, i, <<>>) : i \in IterIds}
    \cup {TCall("snapshot_get", ":spo", <<1, 1>>, <<>>, n, <<>>) : n \in SnapIds}
    \cup {TCall("release_snapshot", "", <<>>, <<>>, n, <<>>) : n \in SnapIds}

\* the threads that are inside the call op
Running(op) == {u \in Threads : pc[u] # "idle" /\ call[u].op = op}

\* thread t enters the NIF of the call c; a call that creates a resource is
\* entered while a resource of its kind is left for it
call_enter(t, c) ==
  /\ pc[t] = "idle"
  /\ started
  /\ c.op \in MutexOps => resource_live(c)
  /\ c.op \notin MutexOps => db_ref_live
  /\ c.op = "prefix_iterator" => Cardinality(Running(c.op)) < Cardinality(FreeIterIds)
  /\ c.op = "snapshot" => Cardinality(Running(c.op)) < Cardinality(FreeSnapIds)
  /\ pc' = [pc EXCEPT ![t] = "waiting"]
  /\ call' = [call EXCEPT ![t] = c]
  /\ UNCHANGED <<last, readers, writer, mutex>>
  /\ SeqFrame

\* the lock thread t waits for is granted: write() of close, read() of the
\* other calls on the handle, lock() of the calls on a dependent
lock_granted(t) ==
  LET c == call[t] IN
  /\ pc[t] = "waiting"
  /\ IF c.op = "close"
     THEN /\ rwlock_write(readers, writer)
          /\ close_waits_for(mutex) = {}
          /\ writer' = t
          /\ pc' = [pc EXCEPT ![t] = "closing"]
          /\ UNCHANGED <<last, call, readers, mutex>>
     ELSE IF c.op \in ReadLockOps
     THEN /\ rwlock_read(readers, writer)
          /\ IF inner = "None"
             THEN finish(t, AlreadyClosed) /\ UNCHANGED readers
             ELSE /\ readers' = readers \cup {t}
                  /\ pc' = [pc EXCEPT ![t] = "locked"]
                  /\ call' = [call EXCEPT ![t].batch = call_batch(c).batch]
                  /\ UNCHANGED last
          /\ UNCHANGED <<writer, mutex>>
     ELSE /\ mutex_free(mutex, resource_of(c))
          /\ mutex' = [mutex EXCEPT ![resource_of(c)] = t]
          /\ pc' = [pc EXCEPT ![t] = "cursor"]
          /\ UNCHANGED <<last, call, readers, writer>>
  /\ UNCHANGED calls
  /\ SeqFrame

\* the step of a thread that holds its lock
lock_held_step(t) ==
  \/ engine_write(t)
  \/ engine_prefix_iterator(t)
  \/ engine_snapshot(t)
  \/ close_take(t)
  \/ iterator_next_locked(t)
  \/ snapshot_get_locked(t)
  \/ release_snapshot_locked(t)

NextLocks ==
  \/ \E t \in Threads, c \in LockCalls : call_enter(t, c)
  \/ \E t \in Threads : lock_granted(t)
  \/ \E t \in Threads : engine_write(t)
  \/ \E t \in Threads : engine_prefix_iterator(t)
  \/ \E t \in Threads : engine_snapshot(t)
  \/ \E t \in Threads : close_take(t)
  \/ \E t \in Threads : iterator_next_locked(t)
  \/ \E t \in Threads : snapshot_get_locked(t)
  \/ \E t \in Threads : release_snapshot_locked(t)

\* fair scheduling: a thread that holds its lock goes on, and a thread that
\* waits for a lock which is free again and again gets it
SpecLocks ==
  /\ Init
  /\ [][NextLocks]_vars
  /\ \A t \in Threads : WF_vars(lock_held_step(t)) /\ SF_vars(lock_granted(t))

\* the number of locks thread t holds
HeldBy(t) ==
  (IF t \in readers THEN 1 ELSE 0) + (IF writer = t THEN 1 ELSE 0)
    + Cardinality({r \in Resources : mutex[r] = t})

C37_Original ==
  [][\A i \in IterIds :
       (/\ iters[i].res = "live" /\ iters[i].some
        /\ last'.op = "iterator_seek" /\ last'.id = i /\ last'.result = <<"ok">>) =>
         /\ iters'[i].iterator.read_opts.prefix_same_as_start =
              (Len(iters[i].prefix) >= PREFIX_LENGTH)
         /\ iters'[i].iterator.read_opts.total_order_seek =
              (Len(iters[i].prefix) < PREFIX_LENGTH)]_vars


(***************************************************************************)
(* Specification of the view of an iterator: writes after its creation     *)
(***************************************************************************)
NextView ==
  \/ put(":spo", <<1, 2>>, <<7>>)
  \/ delete(":spo", <<1, 1>>)
  \/ mixed_batch(SnapBatch, FALSE)
  \/ prefix_iterator(":spo", <<1>>)
  \/ \E i \in IterIds : iterator_next(i)
  \/ \E i \in IterIds : iterator_collect(i)
  \/ \E i \in IterIds : iterator_seek(i, <<1, 1>>)

SpecView == Init /\ [][NextView]_vars

\* the entries of the list are those of the keys at the head of the cursor
\* with the values of the cursor's view, up to the first key off the prefix
CollectedFrom(list, it) ==
  LET c == it.iterator IN
  /\ Len(list) <= Len(c.rest)
  /\ \A n \in 1..Len(list) :
       /\ list[n] = <<c.rest[n], c.view[c.rest[n]]>>
       /\ starts_with(c.rest[n], it.prefix)
  /\ Len(list) < Len(c.rest) => ~starts_with(c.rest[Len(list) + 1], it.prefix)

\* C38: an open iterator reads the view fixed when its cursor was created:
\* put, delete and mixed_batch leave every cursor and its view as they are,
\* iterator_next and iterator_collect return the entries of the cursor's
\* view (key and value as they were when the cursor was created, whatever
\* the store holds now) and do not change the view; an iterator_seek that
\* returns ok installs a cursor whose view is the store of the family at
\* the time of the seek, positioned on keys of that store >= the target.
C38_ViewFixedAtCreation ==
  [][/\ last'.op \in {"put", "delete", "mixed_batch"} => iters' = iters
     /\ \A i \in IterIds :
          (iters[i].res = "live" /\ iters[i].some /\ last'.id = i) =>
            /\ (last'.op = "iterator_next" /\ iterator_next(i)) =>
                 /\ last'.result = Usable(iters[i])
                 /\ iters'[i].iterator.view = iters[i].iterator.view
            /\ (last'.op = "iterator_collect" /\ iterator_collect(i)) =>
                 /\ last'.result[1] = "ok"
                 /\ CollectedFrom(last'.result[2], iters[i])
                 /\ iters'[i].iterator.view = iters[i].iterator.view
            /\ (last'.op = "iterator_seek" /\ last'.result = <<"ok">>) =>
                 LET c == iters'[i].iterator IN
                 /\ c.view = store[iters[i].cf_name]
                 /\ \A n \in 1..Len(c.rest) :
                      c.view[c.rest[n]] # NoVal /\ BytesLeq(last'.key, c.rest[n])]_vars

\* an iterator_next returned the value a key had when the iterator was
\* created, after the key was overwritten and another key of the prefix
\* deleted
C38_Witness ==
  \E i \in IterIds :
    /\ iters[i].res = "live" /\ iters[i].some
    /\ last.op = "iterator_next" /\ last.id = i
    /\ last.result = <<"ok", <<1, 2>>, <<8>>>>
    /\ store["spo"][<<1, 2>>] = <<7>>
    /\ store["spo"][<<1, 1>>] = NoVal
    /\ iters[i].iterator.view # store["spo"]


RaceCalls ==
  { TCall("snapshot", "", <<>>, <<>>, 0, <<>>) }
    \cup {TCall("snapshot_get", ":spo", <<1, 2>>, <<>>, n, <<>>) : n \in SnapIds}
    \cup {TCall("snapshot_prefix_iterator", ":spo", <<1>>, <<>>, n, <<>>) : n \in SnapIds}
    \cup {TCall("release_snapshot", "", <<>>, <<>>, n, <<>>) : n \in SnapIds}

NextRace ==
  \/ \E t \in Threads, c \in RaceCalls : call_enter(t, c)
  \/ \E t \in Threads : lock_granted(t)
  \/ \E t \in Threads : engine_snapshot(t)
  \/ \E t \in Threads : snapshot_get_locked(t)
  \/ \E t \in Threads : snapshot_prefix_iterator_locked(t)
  \/ \E t \in Threads : release_snapshot_locked(t)

SpecRace == Init /\ [][NextRace]_vars

\* the threads that hold the Mutex of snapshot s inside the call op
Using(s, op) ==
  {t \in Threads : pc[t] = "cursor" /\ call[t].op = op /\ call[t].id = s}

\* the threads inside the critical section of snapshot s
OnSnapshot(s) ==
  Using(s, "snapshot_get") \cup Using(s, "snapshot_prefix_iterator")
    \cup Using(s, "release_snapshot")

\* C40: release_snapshot, snapshot_get and snapshot_prefix_iterator on the
\* same snapshot run one at a time under the Mutex of the snapshot; a
\* snapshot_get that returns has read the frozen view when the snapshot is
\* held and returns snapshot_released when it is released, and so does
\* snapshot_prefix_iterator, whose new iterator reads the frozen view; the
\* frozen view is dropped only by the step of a release_snapshot that holds
\* the Mutex, hence while no read and no iterator creation is using it, and
\* a read leaves the snapshot as it is.
C40_ReleaseSerialized ==
  /\ [](\A s \in SnapIds : Cardinality(OnSnapshot(s)) <= 1)
  /\ [][\A s \in SnapIds :
          /\ \A t \in Using(s, "snapshot_get") : pc'[t] = "idle" =>
               /\ last'.result =
                    IF snaps[s].some
                    THEN ReadTerm(snaps[s].view["spo"][<<1, 2>>])
                    ELSE <<"error", <<"snapshot_released">>>>
               /\ snaps' = snaps
          /\ \A t \in Using(s, "snapshot_prefix_iterator") : pc'[t] = "idle" =>
               /\ IF snaps[s].some
                  THEN /\ last'.result[1] = "ok"
                       /\ \E i \in SnapIterIds :
                            /\ snapiters[i].res = "free" /\ snapiters'[i].res = "live"
                            /\ snapiters'[i].iterator.view = snaps[s].view["spo"]
                  ELSE /\ last'.result = <<"error", <<"snapshot_released">>>>
                       /\ snapiters' = snapiters
               /\ snaps' = snaps
          /\ (snaps[s].some /\ ~snaps'[s].some) =>
               /\ \E u \in Using(s, "release_snapshot") :
                    mutex[<<"snapshot", s>>] = u /\ pc'[u] = "idle"
               /\ Using(s, "snapshot_get") = {}
               /\ Using(s, "snapshot_prefix_iterator") = {}]_vars

\* a snapshot_get holds the Mutex of the held snapshot while a
\* release_snapshot on the same snapshot has been entered and has to wait
C40_Witness ==
  \E s \in SnapIds, t, u \in Threads :
    /\ snaps[s].res = "live" /\ snaps[s].some
    /\ t \in Using(s, "snapshot_get")
    /\ pc[u] = "waiting" /\ call[u].op = "release_snapshot" /\ call[u].id = s
    /\ ~ENABLED lock_granted(u)
    /\ snaps[s].view["spo"][<<1, 2>>] = <<8>>

====
